---- MODULE Spec2Model ----
(***************************************************************************)
(* Model of mcp-abstract: the AbstractClient HTTP client                   *)
(* (src/src/mcp_abstract_api/api_client.py) and the per-service client     *)
(* registry with its shutdown hook (src/src/mcp_abstract_api/server.py).   *)
(*                                                                         *)
(* Coroutines are modelled at the granularity of the event loop: one       *)
(* action runs a coroutine from one suspension point (an await that can    *)
(* yield: the GET, ctx.warning, ctx.error, session.close) to the next.     *)
(***************************************************************************)
EXTENDS Integers, Sequences, FiniteSets

VARIABLES
    env,        \* os.environ: the generic key and the service-scoped keys
    clients,    \* server._clients, a dict in insertion order: <<[service, client]>>
    made,       \* number of AbstractClient objects constructed so far (ids 1..made)
    api_key,    \* AbstractClient.api_key, per object
    timeout,    \* AbstractClient.timeout, per object
    session,    \* AbstractClient._session, per object: None or the ClientSession
    owner,      \* history: the service name get_client constructed the object for
    tasks,      \* the running coroutines (tool calls and direct client calls)
    shut,       \* shutdown_event's position
    calls,      \* number of invocations started so far
    reply,      \* _request in isolation: what the GET produced
    outcome,    \* _request in isolation: how _request ended
    health      \* the responses GET /health has been given, in order

vars == <<env, clients, made, api_key, timeout, session, owner, tasks, shut,
          calls, reply, outcome, health>>

-----------------------------------------------------------------------------
(* Python and JSON values.  Every value is a tagged record so that values  *)
(* of different Python types can be compared.                              *)

None == [t |-> "null"]
Str(s) == [t |-> "str", s |-> s]
List(q) == [t |-> "list", q |-> q]
\* an int
Num(n) == [t |-> "num", n |-> n]
Bool(b) == [t |-> "bool", b |-> b]
Bytes(b) == [t |-> "bytes", of |-> b]

IsList(v) == v.t = "list"

\* s < t for two str: by the first character that differs, in the order of
\* the code points
Before(s, t) ==
    LET chars == "\t\n\f\r !\"#$%&'()*+,-./0123456789:;<=>?@"
                 \o "ABCDEFGHIJKLMNOPQRSTUVWXYZ[\\]^_abcdefghijklmnopqrstuvwxyz{|}~"
                 \o " ¡¢£¤¥¦§¨©ª«¬­®¯°±²³´µ¶·¸¹º»¼½¾¿ÀÁÂÃÄÅÆÇÈÉÊËÌÍÎÏÐÑÒÓÔÕÖ×ØÙÚÛÜÝÞßàáâãäåæçèéêëìíîïðñòóôõö÷øùúûüýþÿ"
        code(c) == IF \E i \in 1..Len(chars) : SubSeq(chars, i, i) = c
                   THEN CHOOSE i \in 1..Len(chars) : SubSeq(chars, i, i) = c
                   ELSE 0
    IN \E i \in 1..(Len(s) + 1) :
          /\ i <= Len(t)
          /\ SubSeq(s, 1, i - 1) = SubSeq(t, 1, i - 1)
          /\ \/ i > Len(s)
             \/ code(SubSeq(s, i, i)) < code(SubSeq(t, i, i))

\* sorted(S) for a set of str
RECURSIVE Sorted(_)
Sorted(S) ==
    IF S = {} THEN << >>
    ELSE LET x == CHOOSE y \in S : \A z \in S \ {y} : ~Before(z, y)
         IN <<x>> \o Sorted(S \ {x})

\* a dict: f holds its items by key.  A dict keeps its keys in the order
\* they were inserted, ks; the order is written down only when it is not
\* the alphabetical one.
Obj(f) == [t |-> "obj", f |-> f]
Dict(ks, f) ==
    IF ks = Sorted(DOMAIN f) THEN Obj(f) ELSE [t |-> "obj", f |-> f, ks |-> ks]
IsDict(v) == v.t = "obj"
\* list(d)
Keys(d) == IF "ks" \in DOMAIN d THEN d.ks ELSE Sorted(DOMAIN d.f)

\* d[k] = v on the items of a dict
SetItem(d, k, v) == [x \in (DOMAIN d) \cup {k} |-> IF x = k THEN v ELSE d[x]]

-----------------------------------------------------------------------------
(* Floats.  A float is an IEEE 754 double: a sign, and m * 2^e with m odd   *)
(* and below 2^53 (m = 0 and e = 0 for zero), or an infinity, or nan.  m is *)
(* written in bits, lowest first, as is every natural number that may      *)
(* exceed a machine word here.                                             *)

\* the bits of n >= 0
RECURSIVE Bits(_)
Bits(n) == IF n = 0 THEN << >> ELSE <<n % 2>> \o Bits(n \div 2)

\* the number the bits a write
RECURSIVE IntVal(_)
IntVal(a) == IF a = << >> THEN 0 ELSE Head(a) + 2 * IntVal(Tail(a))

\* a without its high zeros
Norm(a) ==
    IF a = << >> \/ a[Len(a)] = 1 THEN a
    ELSE IF \A i \in 1..Len(a) : a[i] = 0 THEN << >>
    ELSE SubSeq(a, 1, CHOOSE i \in 1..Len(a) :
                         a[i] = 1 /\ \A j \in (i + 1)..Len(a) : a[j] = 0)

\* the bits lo..hi of a + b + c, c a carry into bit lo, and the carry out
RECURSIVE AddBits(_, _, _, _, _)
AddBits(a, b, lo, hi, c) ==
    IF lo = hi
    THEN LET x == (IF lo <= Len(a) THEN a[lo] ELSE 0)
                  + (IF lo <= Len(b) THEN b[lo] ELSE 0) + c
         IN [s |-> <<x % 2>>, c |-> x \div 2]
    ELSE LET mid == (lo + hi) \div 2
             low == AddBits(a, b, lo, mid, c)
             high == AddBits(a, b, mid + 1, hi, low.c)
         IN [s |-> low.s \o high.s, c |-> high.c]

\* a + b + c, c a carry
BAdd(a, b, c) ==
    IF b = << >> /\ c = 0 THEN a
    ELSE IF a = << >> /\ c = 0 THEN b
    ELSE IF a = << >> /\ b = << >> THEN <<1>>
    ELSE LET n == IF Len(a) > Len(b) THEN Len(a) ELSE Len(b)
             r == AddBits(a, b, 1, n, c)
         IN IF r.c = 1 THEN r.s \o <<1>> ELSE r.s

\* a - b for a >= b: a plus the complement of b plus one, the carry dropped
BSub(a, b) ==
    IF b = << >> THEN a
    ELSE Norm(AddBits(a, [i \in 1..Len(a) |->
                             IF i <= Len(b) THEN 1 - b[i] ELSE 1],
                      1, Len(a), 1).s)

\* a < b
BLess(a, b) ==
    \/ Len(a) < Len(b)
    \/ /\ Len(a) = Len(b)
       /\ \E i \in 1..Len(a) :
             a[i] < b[i] /\ \A j \in (i + 1)..Len(a) : a[j] = b[j]

\* a * b: a times the low half of b, plus a times the high half shifted
RECURSIVE BMul(_, _)
BMul(a, b) ==
    IF a = << >> \/ b = << >> THEN << >>
    ELSE IF Len(a) < Len(b) THEN BMul(b, a)
    ELSE IF Len(b) = 1 THEN a
    ELSE LET h == Len(b) \div 2
         IN BAdd(BMul(a, Norm(SubSeq(b, 1, h))),
                 [i \in 1..h |-> 0] \o BMul(a, SubSeq(b, h + 1, Len(b))), 0)

\* long division by b over the bits hi down to lo of a (high zeros
\* allowed), r the remainder of the bits above hi: the quotient's bits for
\* hi down to lo, highest first, and the remainder
RECURSIVE BDiv(_, _, _, _, _)
BDiv(a, b, hi, lo, r) ==
    IF hi = lo
    THEN LET r2 == Norm(<<a[hi]>> \o r)
         IN IF BLess(r2, b) THEN [q |-> <<0>>, r |-> r2]
            ELSE [q |-> <<1>>, r |-> BSub(r2, b)]
    ELSE LET mid == (hi + lo + 1) \div 2
             up == BDiv(a, b, hi, mid, r)
             low == BDiv(a, b, mid - 1, lo, up.r)
         IN [q |-> up.q \o low.q, r |-> low.r]

\* 10^k
RECURSIVE Pow10(_)
Pow10(k) ==
    IF k = 0 THEN <<1>>
    ELSE IF k % 2 = 1 THEN BMul(Pow10(k - 1), <<0, 1, 0, 1>>)
    ELSE LET h == Pow10(k \div 2) IN BMul(h, h)

Inf(neg) == [t |-> "float", k |-> "inf", neg |-> neg, m |-> << >>, e |-> 0]
NaN == [t |-> "float", k |-> "nan", neg |-> FALSE, m |-> << >>, e |-> 0]

\* the double m * 2^e, for m below 2^53 and e from -1074 on: m is made odd;
\* from 2^1024 on the value is an infinity
Fin(neg, m, e) ==
    IF m = << >>
    THEN [t |-> "float", k |-> "fin", neg |-> neg, m |-> << >>, e |-> 0]
    ELSE IF Len(m) + e > 1024 THEN Inf(neg)
    ELSE LET z == CHOOSE i \in 1..Len(m) :
                     m[i] = 1 /\ \A j \in 1..(i - 1) : m[j] = 0
         IN [t |-> "float", k |-> "fin", neg |-> neg,
             m |-> SubSeq(m, z, Len(m)), e |-> e + z - 1]

\* the double nearest to m * 2^e, plus a fraction of 2^e when more is TRUE:
\* 53 bits are kept (fewer below 2^-1022), a tie goes to the even neighbour
Round(neg, m, e, more) ==
    LET te == IF e + Len(m) - 53 > -1074 THEN e + Len(m) - 53 ELSE -1074
        sh == te - e
    IN IF sh <= 0 THEN Fin(neg, m, e)
       ELSE LET q == SubSeq(m, sh + 1, Len(m))
                half == sh <= Len(m) /\ m[sh] = 1
                rest == more \/ \E i \in 1..(sh - 1) : i <= Len(m) /\ m[i] = 1
                odd == q # << >> /\ q[1] = 1
            IN Fin(neg, IF half /\ (rest \/ odd) THEN BAdd(q, << >>, 1) ELSE q,
                   te)

\* the double nearest to a / b * 2^e
Quot(neg, a, b, e) ==
    IF a = << >> THEN Fin(neg, a, 0)
    ELSE LET s == 55 + Len(b)
             n == s + Len(a)
             d == BDiv([i \in 1..s |-> 0] \o a, b, n, 1, << >>)
         IN Round(neg, Norm([i \in 1..n |-> d.q[n + 1 - i]]), e - s,
                  d.r # << >>)

\* the float n / d of two ints: 0.5 is Float(1, 2), 0.1 is Float(1, 10) and
\* 1.0 is Float(1, 1)
Float(n, d) ==
    Quot((n < 0) # (d < 0), Bits(IF n < 0 THEN -n ELSE n),
         Bits(IF d < 0 THEN -d ELSE d), 0)

\* bool(v): None, "", zero and empty containers are falsy
Truthy(v) ==
    CASE v.t = "null" -> FALSE
      [] v.t = "str" -> v.s # ""
      [] v.t = "obj" -> DOMAIN v.f # {}
      [] v.t = "list" -> Len(v.q) > 0
      [] v.t = "num" -> v.n # 0
      [] v.t = "float" -> v.k # "fin" \/ v.m # << >>
      [] v.t = "bool" -> v.b
      [] OTHER -> TRUE

\* a or b
Or(a, b) == IF Truthy(a) THEN a ELSE b

\* dict.get(k, default)
Get(d, k, default) == IF k \in DOMAIN d.f THEN d.f[k] ELSE default

\* str(v) for the values an error field takes here
PyStr(v) ==
    CASE v.t = "str" -> v
      [] v.t = "null" -> Str("None")
      [] OTHER -> [t |-> "repr", v |-> v]

-----------------------------------------------------------------------------
(* HTTP replies.  The code tests the Content-Type header with substring    *)
(* checks.                                                                 *)

\* str.lower() on the letters up to U+00FF
RECURSIVE Lower(_)
Lower(s) ==
    IF Len(s) = 0 THEN s
    ELSE IF Len(s) = 1
    THEN LET upper == "ABCDEFGHIJKLMNOPQRSTUVWXYZÀÁÂÃÄÅÆÇÈÉÊËÌÍÎÏÐÑÒÓÔÕÖØÙÚÛÜÝÞ"
             lower == "abcdefghijklmnopqrstuvwxyzàáâãäåæçèéêëìíîïðñòóôõöøùúûüýþ"
             at == { i \in 1..Len(upper) : SubSeq(upper, i, i) = s }
         IN IF at = {} THEN s
            ELSE LET i == CHOOSE j \in at : TRUE
                 IN SubSeq(lower, i, i)
    ELSE Lower(SubSeq(s, 1, Len(s) \div 2))
         \o Lower(SubSeq(s, Len(s) \div 2 + 1, Len(s)))

Contains(hay, needle) ==
    \E i \in 1..(Len(hay) + 1) :
        /\ i + Len(needle) - 1 <= Len(hay)
        /\ SubSeq(hay, i, i + Len(needle) - 1) = needle

RECURSIVE PickFields(_, _)
\* the JSON objects with keys among ks, each key absent or drawn from its set
PickFields(ks, vals) ==
    IF ks = {} THEN { <<>> }
    ELSE LET k == CHOOSE x \in ks : TRUE
             rest == PickFields(ks \ {k}, vals)
         IN rest \cup { [x \in (DOMAIN r) \cup {k} |-> IF x = k THEN v ELSE r[x]] :
                          r \in rest, v \in vals[k] }

\* a response body: the text of a JSON document, after white space pad or
\* none; or text that is no JSON
Doc(v) == [k |-> "doc", v |-> v, pad |-> ""]
Raw(s) == [k |-> "raw", text |-> s]

\* text.startswith(ch), ch one character: the text of a document begins
\* with its white space if it has any, and else as its value is written
StartsWith(body, ch) ==
    IF body.k = "raw" THEN Len(body.text) > 0 /\ SubSeq(body.text, 1, 1) = ch
    ELSE IF body.pad # "" THEN SubSeq(body.pad, 1, 1) = ch
    ELSE (ch = "{" /\ body.v.t = "obj") \/ (ch = "[" /\ body.v.t = "list")

\* response.text()
TextOf(body) ==
    IF body.k = "raw" THEN Str(body.text)
    ELSE [t |-> "jsontext", pad |-> body.pad, v |-> body.v]

\* json.loads(text): the document, or "invalid" for JSONDecodeError
JsonLoads(body) == IF body.k = "doc" THEN body.v ELSE [t |-> "invalid"]

\* aiohttp's test of the header in response.json(): the lowered header
\* begins with application/json, or with application/, a subtype suffix
\* of word characters, ".", "+" and "-" ending in "+", and json
JsonType(ct) ==
    LET word == "abcdefghijklmnopqrstuvwxyz0123456789_.+-"
                \o "ª²³µ¹º¼½¾ÀÁÂÃÄÅÆÇÈÉÊËÌÍÎÏÐÑÒÓÔÕÖØÙÚÛÜÝÞßàáâãäåæçèéêëìíîïðñòóôõöøùúûüýþÿ"
        app == "application/"
    IN /\ Len(ct) >= Len(app) /\ SubSeq(ct, 1, Len(app)) = app
       /\ \E i \in Len(app)..(Len(ct) - 4) :
             /\ SubSeq(ct, i + 1, i + 4) = "json"
             /\ i > Len(app) =>
                   /\ i > Len(app) + 1 /\ SubSeq(ct, i, i) = "+"
                   /\ \A j \in (Len(app) + 1)..i :
                         \E k \in 1..Len(word) :
                            SubSeq(word, k, k) = SubSeq(ct, j, j)

\* aiohttp response.json() on a header it accepts: None for a body of which
\* bytes.strip() leaves nothing, else json.loads
ResponseJson(body) ==
    IF /\ body.k = "raw"
       /\ \A i \in 1..Len(body.text) :
             SubSeq(body.text, i, i) \in {" ", "\t", "\n", "\r", "\f", ""}
    THEN None ELSE JsonLoads(body)

\* a response: its status, its Content-Type header, its body and the URL it
\* names as its request's (response.request_info.real_url)
Response(st, ct, b) ==
    [is |-> "response", status |-> st, ctype |-> ct, body |-> b, url |-> ""]

\* what session.get raises instead of answering: the exception's class and str(e)
Failure(e, text) == [is |-> "failure", exc |-> e, text |-> text]

\* the replies of the GET: a status, a Content-Type header and a body, the
\* bodies being error objects with each of "error", "message" and "title"
\* absent or present, other documents and texts; or a failure
Replies ==
    LET fields ==
          [error |-> { Str("bad key"), Str(""), None,
                       Obj([message |-> Str("Invalid API key")]),
                       Obj([message |-> None]),
                       Obj([code |-> Str("E1")]) },
           message |-> { Str("Rate limited"), Str(""), None },
           title |-> { Str("Forbidden") }]
        bodies ==
          { Doc(Obj(f)) : f \in PickFields({"error", "message", "title"}, fields) }
          \cup { Doc(List(<<Str("New Year")>>)), Doc(Str("ok")),
                 Doc(Obj([email |-> Str("a@b.c")])) }
          \cup { [Doc(Obj([email |-> Str("a@b.c")])) EXCEPT !.pad = " "],
                 [Doc(List(<<Str("New Year")>>)) EXCEPT !.pad = "\n"] }
          \cup { Raw(""), Raw(" "), Raw("Not found"),
                 Raw("{oops"), Raw("[1,") }
    IN { Response(st, ct, b) :
           st \in {200, 399, 400, 401, 503},
           ct \in { "application/json",
                    "application/json;charset=utf-8",
                    "application/problem+json",
                    "text/plain",
                    "text/html",
                    "image/png",
                    "application/octet-stream",
                    "application/json;profile=image",
                    "text/plain;application/json",
                    "Application/JSON",
                    "" },
           b \in bodies }
       \cup { [Response(st, "text/plain; note=\"application/json\"",
                        Doc(Str("ok")))
                  EXCEPT !.url =
                      "https://emailvalidation.abstractapi.com/v1/?email=a'b"] :
                st \in {200, 503} }
       \cup { Failure("ClientConnectorError", "Cannot connect to host"),
              Failure("ClientConnectorDNSError", "Name or service not known"),
              Failure("ClientConnectorSSLError", "certificate verify failed"),
              Failure("ServerDisconnectedError", "Server disconnected"),
              Failure("TimeoutError", "") }

-----------------------------------------------------------------------------
(* AbstractClient._request, from the reply of the GET on.                  *)

Return(v) == [kind |-> "return", value |-> v]
Raise(e) == [kind |-> "raise", exc |-> e]
AbstractAPIError(st, msg, det, cause) ==
    [kind |-> "raise", exc |-> "AbstractAPIError", status |-> st,
     message |-> msg, details |-> det, cause |-> cause]

\* the ContentTypeError response.json() raises on a header it refuses, as
\* line 150 wraps it: str(e) gives the status, the message and the URL,
\* the last two as repr() writes a str
Unexpected(r) ==
    LET RECURSIVE Digits(_)
        \* str(n) of a natural number
        Digits(n) ==
            IF n < 10 THEN SubSeq("0123456789", n + 1, n + 1)
            ELSE Digits(n \div 10)
                 \o SubSeq("0123456789", (n % 10) + 1, (n % 10) + 1)
        RECURSIVE Escaped(_, _)
        \* the characters of s as repr() writes them between quotes q
        Escaped(s, q) ==
            IF Len(s) = 0 THEN s
            ELSE IF Len(s) = 1
            THEN CASE s = "\\" -> "\\\\"
                   [] s = q -> "\\" \o q
                   [] s = "\t" -> "\\t"
                   [] s = "\n" -> "\\n"
                   [] s = "\r" -> "\\r"
                   [] s = "\f" -> "\\x0c"
                   [] s = "" -> "\\x0b"
                   [] s = "" -> "\\x85"
                   [] s = " " -> "\\xa0"
                   [] s = "­" -> "\\xad"
                   [] OTHER -> s
            ELSE Escaped(SubSeq(s, 1, Len(s) \div 2), q)
                 \o Escaped(SubSeq(s, Len(s) \div 2 + 1, Len(s)), q)
        \* repr(s): between double quotes when s holds a single quote and
        \* no double one, else between single quotes
        Repr(s) ==
            LET q == IF Contains(s, "'") /\ ~Contains(s, "\"") THEN "\"" ELSE "'"
            IN q \o Escaped(s, q) \o q
    IN AbstractAPIError(500,
           Str("Network error: " \o Digits(r.status) \o ", message="
               \o Repr("Attempt to decode JSON with unexpected mimetype: "
                       \o Lower(r.ctype))
               \o ", url=" \o Repr(r.url)),
           None, Str("ContentTypeError"))

Wrapped(text) == Obj([result |-> text])

\* lines 110-133: an early return, an escaping exception, or the result
Normalize(r) ==
    IF Contains(r.ctype, "image")
       \/ Contains(r.ctype, "application/octet-stream")
    THEN Return(Bytes(r.body))
    ELSE IF Contains(r.ctype, "application/json")
    THEN IF ~JsonType(Lower(r.ctype))
         THEN Unexpected(r)
         ELSE IF ResponseJson(r.body).t = "invalid"
         THEN Raise("JSONDecodeError")
         ELSE [kind |-> "result", value |-> ResponseJson(r.body)]
    ELSE IF Contains(r.ctype, "text/plain")
    THEN Return(Wrapped(TextOf(r.body)))
    ELSE IF StartsWith(r.body, "{") \/ StartsWith(r.body, "[")
    THEN IF JsonLoads(r.body).t = "invalid"
         THEN [kind |-> "result", value |-> Wrapped(TextOf(r.body))]
         ELSE [kind |-> "result", value |-> JsonLoads(r.body)]
    ELSE [kind |-> "result", value |-> Wrapped(TextOf(r.body))]

\* lines 137-145: the conditional expression binds weaker than "or"
ErrorMessage(result) ==
    IF IsDict(result)
    THEN IF IsDict(Get(result, "error", None))
         THEN Get(Get(result, "error", Obj(<<>>)), "message", None)
         ELSE Or(Get(result, "message", None),
                 Or(Get(result, "title", None),
                    PyStr(Get(result, "error", Str("Unknown error")))))
    ELSE Str("Unknown error")

\* lines 109-148
HandleResponse(r) ==
    LET n == Normalize(r) IN
    IF n.kind # "result" THEN n
    ELSE IF r.status >= 400
    THEN AbstractAPIError(r.status, ErrorMessage(n.value), n.value, None)
    ELSE Return(n.value)

\* lines 150-151: except ClientError, which catches the classes of aiohttp
\* that are ClientError or derive from it.  Any other exception leaves
\* _request as it is, among them asyncio.TimeoutError, as which the total
\* timeout the session is built with expires
HandleFailure(r) ==
    IF r.exc \in
         {"ClientError", "ClientResponseError", "ContentTypeError",
          "WSServerHandshakeError", "ClientHttpProxyError", "TooManyRedirects",
          "ClientConnectionError", "ClientConnectionResetError",
          "ClientOSError", "ClientConnectorError",
          "ClientProxyConnectionError", "ClientConnectorDNSError",
          "ClientSSLError", "ClientConnectorSSLError",
          "ClientConnectorCertificateError", "UnixClientConnectorError",
          "ServerConnectionError", "ServerDisconnectedError",
          "ServerTimeoutError", "SocketTimeoutError", "ConnectionTimeoutError",
          "ServerFingerprintMismatch", "ClientPayloadError", "InvalidURL",
          "InvalidUrlClientError", "RedirectClientError",
          "NonHttpUrlClientError", "InvalidUrlRedirectClientError",
          "NonHttpUrlRedirectClientError"}
    THEN AbstractAPIError(500, Str("Network error: " \o r.text), None, Str(r.exc))
    ELSE Raise(r.exc)

RequestOutcome(r) ==
    IF r.is = "response" THEN HandleResponse(r) ELSE HandleFailure(r)

-----------------------------------------------------------------------------
(* Bounds and program constants.                                           *)

NTasks == 2         \* coroutines running concurrently
MaxCalls == 2       \* tool invocations started in one behaviour
MaxDirectCalls == 3 \* client methods callers invoke directly in one behaviour
MaxClients == 2     \* AbstractClient objects get_client constructs in one behaviour
MaxHealthChecks == 2 \* requests of the health endpoint in one behaviour

DefaultTimeout == 30
ExtendedTimeout == 60
\* the timeouts a caller passes to the constructor
Timeouts == {DefaultTimeout, 10}

Tasks == 1..NTasks
ClientIds == 1..MaxClients

-----------------------------------------------------------------------------
(* The tools of server.py, each with the service name it resolves.  The    *)
(* client method a tool invokes has the tool's name.                       *)

ServiceOf(tool) ==
    CASE tool = "validate_email" -> "email"
      [] tool = "validate_phone" -> "phone"
      [] tool = "validate_vat" -> "vat"
      [] tool \in {"geolocate_ip", "get_ip_info", "geolocate_ip_security"} -> "ip"
      [] tool \in {"get_timezone", "convert_timezone"} -> "timezone"
      [] tool = "get_holidays" -> "holidays"
      [] tool \in {"get_exchange_rates", "convert_currency"} -> "exchange"
      [] tool = "get_company_info" -> "company"
      [] tool = "scrape_url" -> "scrape"
      [] tool = "generate_screenshot" -> "screenshot"

\* every @mcp.tool() of server.py
AllTools ==
    {"validate_email", "validate_phone", "validate_vat", "geolocate_ip",
     "get_ip_info", "geolocate_ip_security", "get_timezone", "convert_timezone",
     "get_holidays", "get_exchange_rates", "convert_currency",
     "get_company_info", "scrape_url", "generate_screenshot"}

\* the tools and methods the concurrent models invoke
Tools == {"validate_email", "get_timezone", "scrape_url"}
Methods == {"validate_email", "get_timezone", "scrape_url", "generate_screenshot"}
Services == { ServiceOf(tool) : tool \in AllTools }

\* the methods that widen the session's timeout for their call
Overriding == {"scrape_url", "generate_screenshot"}

\* the exceptions a tool's except clause catches: AbstractAPIError, and for
\* get_timezone also ValueError (server.py 264) with its subclasses:
\* pydantic's ValidationError, json's JSONDecodeError and the UnicodeErrors
Caught(tool, exc) ==
    \/ exc = "AbstractAPIError"
    \/ /\ tool = "get_timezone"
       /\ exc \in {"ValueError", "ValidationError", "JSONDecodeError",
                   "UnicodeError", "UnicodeDecodeError", "UnicodeEncodeError",
                   "UnicodeTranslateError"}

-----------------------------------------------------------------------------
(* The response models (api_models.py).                                    *)

ModelOf(op) ==
    CASE op = "validate_email" -> "EmailValidationResponse"
      [] op = "validate_phone" -> "PhoneValidationResponse"
      [] op = "validate_vat" -> "VATValidationResponse"
      [] op \in {"geolocate_ip", "get_ip_info", "geolocate_ip_security"} ->
           "IPGeolocationResponse"
      [] op = "get_timezone" -> "TimezoneResponse"
      [] op = "convert_timezone" -> "TimezoneConversionResponse"
      [] op = "get_holidays" -> "HolidaysResponse"
      [] op = "get_exchange_rates" -> "ExchangeRatesResponse"
      [] op = "convert_currency" -> "CurrencyConversionResponse"
      [] op = "get_company_info" -> "CompanyInfoResponse"
      [] op = "scrape_url" -> "ScrapeResponse"
      [] op = "generate_screenshot" -> "ScreenshotResponse"

\* the fields declared with Field(...)
Required(model) ==
    CASE model = "EmailValidationResponse" ->
           {"email", "deliverability", "quality_score", "is_valid_format",
            "is_free_email", "is_disposable_email", "is_role_email",
            "is_catchall_email", "is_mx_found", "is_smtp_valid"}
      [] model = "PhoneValidationResponse" -> {"phone", "valid", "format", "country"}
      [] model = "VATValidationResponse" ->
           {"vat_number", "valid", "company", "country"}
      [] model = "IPGeolocationResponse" -> {"ip_address"}
      [] model = "TimezoneResponse" ->
           {"timezone_name", "timezone_abbreviation", "timezone_offset", "datetime",
            "date", "time", "year", "month", "day", "hour", "minute", "second"}
      [] model = "TimezoneConversionResponse" ->
           {"base_location", "base_timezone", "base_datetime", "target_location",
            "target_timezone", "target_datetime"}
      [] model = "Holiday" ->
           {"name", "country", "type", "date", "date_year", "date_month",
            "date_day", "week_day"}
      [] model = "HolidaysResponse" -> {}
      [] model = "ExchangeRatesResponse" -> {"base", "last_updated", "exchange_rates"}
      [] model = "CurrencyConversionResponse" ->
           {"base", "last_updated", "exchange_rates"}
      [] model = "CompanyInfoResponse" -> {"domain"}
      [] model = "ScrapeResponse" -> {"url"}
      [] model = "ScreenshotResponse" -> {"success", "url", "image_data"}

\* the fields declared with a default
Optional(model) ==
    CASE model = "EmailValidationResponse" -> {"autocorrect"}
      [] model = "PhoneValidationResponse" -> {"location", "type", "carrier"}
      [] model = "IPGeolocationResponse" ->
           {"city", "city_geoname_id", "region", "region_iso_code",
            "region_geoname_id", "postal_code", "country", "country_code",
            "country_geoname_id", "country_is_eu", "continent", "continent_code",
            "continent_geoname_id", "longitude", "latitude", "security",
            "timezone", "flag", "currency", "connection"}
      [] model = "TimezoneResponse" ->
           {"requested_location", "latitude", "longitude", "timezone_location",
            "gmt_offset", "is_dst"}
      [] model = "Holiday" -> {"name_local", "language", "description", "location"}
      [] model = "HolidaysResponse" -> {"holidays"}
      [] model = "CurrencyConversionResponse" ->
           {"target", "date", "converted_amount", "amount"}
      [] model = "CompanyInfoResponse" ->
           {"name", "year_founded", "industry", "employees_count", "locality",
            "country", "linkedin_url", "logo_url"}
      [] model = "ScrapeResponse" ->
           {"content", "html", "links", "images", "metadata"}
      [] model = "ScreenshotResponse" -> {"content_type", "note"}
      [] OTHER -> {}

Declared(model) == Required(model) \cup Optional(model)

\* the annotations the fields carry: T("str"), T("int"), T("float"),
\* T("bool"), T("any"), and Of("dict", a) for dict[str, a], Of("list", a)
\* for list[a], Of("optional", a) for a | None, Of("model", name)
T(k) == [k |-> k]
Of(k, a) == [k |-> k, of |-> a]

\* the annotation of field k of a model (api_models.py 12-190)
TypeOf(model, k) ==
    CASE model = "EmailValidationResponse" ->
           IF k = "quality_score" THEN T("float")
           ELSE IF k = "autocorrect" THEN Of("optional", T("str"))
           ELSE IF k \in {"email", "deliverability"} THEN T("str")
           ELSE Of("dict", T("bool"))
      [] model = "PhoneValidationResponse" ->
           IF k = "valid" THEN T("bool")
           ELSE IF k \in {"format", "country"} THEN Of("dict", T("str"))
           ELSE IF k = "phone" THEN T("str")
           ELSE Of("optional", T("str"))
      [] model = "VATValidationResponse" ->
           IF k = "valid" THEN T("bool")
           ELSE IF k = "company" THEN Of("dict", Of("optional", T("str")))
           ELSE IF k = "country" THEN Of("dict", T("str"))
           ELSE T("str")
      [] model = "IPGeolocationResponse" ->
           IF k = "ip_address" THEN T("str")
           ELSE IF k \in {"city_geoname_id", "region_geoname_id",
                          "country_geoname_id", "continent_geoname_id"}
           THEN Of("optional", T("int"))
           ELSE IF k = "country_is_eu" THEN Of("optional", T("bool"))
           ELSE IF k \in {"longitude", "latitude"} THEN Of("optional", T("float"))
           ELSE IF k \in {"security", "timezone", "connection"}
           THEN Of("optional", Of("dict", T("any")))
           ELSE IF k \in {"flag", "currency"} THEN Of("optional", Of("dict", T("str")))
           ELSE Of("optional", T("str"))
      [] model = "TimezoneResponse" ->
           IF k = "timezone_offset" THEN T("int")
           ELSE IF k = "gmt_offset" THEN Of("optional", T("int"))
           ELSE IF k = "is_dst" THEN Of("optional", T("bool"))
           ELSE IF k \in {"latitude", "longitude"} THEN Of("optional", T("float"))
           ELSE IF k \in {"requested_location", "timezone_location"}
           THEN Of("optional", T("str"))
           ELSE T("str")
      [] model = "TimezoneConversionResponse" ->
           IF k \in {"base_timezone", "target_timezone"} THEN Of("dict", T("any"))
           ELSE T("str")
      [] model = "Holiday" ->
           IF k \in {"name_local", "language", "description", "location"}
           THEN Of("optional", T("str"))
           ELSE T("str")
      [] model = "HolidaysResponse" -> Of("list", Of("model", "Holiday"))
      [] model = "ExchangeRatesResponse" ->
           IF k = "last_updated" THEN T("int")
           ELSE IF k = "exchange_rates" THEN Of("dict", T("float"))
           ELSE T("str")
      [] model = "CurrencyConversionResponse" ->
           IF k = "last_updated" THEN T("int")
           ELSE IF k = "exchange_rates" THEN Of("dict", T("float"))
           ELSE IF k \in {"converted_amount", "amount"} THEN Of("optional", T("float"))
           ELSE IF k \in {"target", "date"} THEN Of("optional", T("str"))
           ELSE T("str")
      [] model = "CompanyInfoResponse" ->
           IF k = "domain" THEN T("str")
           ELSE IF k \in {"year_founded", "employees_count"} THEN Of("optional", T("int"))
           ELSE Of("optional", T("str"))
      [] model = "ScrapeResponse" ->
           IF k = "url" THEN T("str")
           ELSE IF k \in {"links", "images"} THEN Of("optional", Of("list", T("str")))
           ELSE IF k = "metadata" THEN Of("optional", Of("dict", T("any")))
           ELSE Of("optional", T("str"))
      [] model = "ScreenshotResponse" ->
           IF k = "success" THEN T("bool")
           ELSE IF k \in {"content_type", "note"} THEN Of("optional", T("str"))
           ELSE T("str")

\* the outcome of validating one value: the value the record gets, or none
Ok(v) == [ok |-> TRUE, v |-> v]
Bad == [ok |-> FALSE, v |-> None]

\* str.trim() of pydantic-core's number parsers: the white space at both
\* ends is dropped (space, tab, line feed, vertical tab, form feed, carriage
\* return, next line, no-break space)
Trimmed(s) ==
    LET ws == " \t\n\f\r "
        ink == { i \in 1..Len(s) :
                   \A j \in 1..Len(ws) : SubSeq(ws, j, j) # SubSeq(s, i, i) }
    IN IF ink = {} THEN ""
       ELSE SubSeq(s, CHOOSE i \in ink : \A j \in ink : i <= j,
                      CHOOSE i \in ink : \A j \in ink : i >= j)

AllDigits(s) ==
    \A i \in 1..Len(s) : \E j \in 1..10 : SubSeq("0123456789", j, j) = SubSeq(s, i, i)

\* the number a string of digits writes
RECURSIVE Decimal(_)
Decimal(s) ==
    IF Len(s) = 0 THEN << >>
    ELSE IF Len(s) = 1
    THEN Bits((CHOOSE i \in 1..10 : SubSeq("0123456789", i, i) = s) - 1)
    ELSE LET h == Len(s) \div 2
         IN BAdd(BMul(Decimal(SubSeq(s, 1, h)), Pow10(Len(s) - h)),
                 Decimal(SubSeq(s, h + 1, Len(s))), 0)

\* pydantic-core's strip_underscores: s without its "_", when it has some,
\* none of them first, last or next to another; s as it is otherwise
RECURSIVE NoUnderscores(_)
NoUnderscores(s) ==
    IF Len(s) <= 1 THEN (IF s = "_" THEN "" ELSE s)
    ELSE NoUnderscores(SubSeq(s, 1, Len(s) \div 2))
         \o NoUnderscores(SubSeq(s, Len(s) \div 2 + 1, Len(s)))
StripUnderscores(s) ==
    IF /\ \E i \in 1..Len(s) : SubSeq(s, i, i) = "_"
       /\ Head(s) # "_" /\ SubSeq(s, Len(s), Len(s)) # "_"
       /\ \A i \in 1..(Len(s) - 1) : SubSeq(s, i, i + 1) # "__"
    THEN NoUnderscores(s) ELSE s

\* pydantic-core's strip_leading_zeros: s from its first digit that is no
\* zero, the zeros and underscores before it skipped; from the sign or from
\* the zero before the point that ends them; the last zero of nothing but
\* zeros; "" when s is refused
StripLeadingZeros(s) ==
    LET rest == { i \in 2..Len(s) : SubSeq(s, i, i) \notin {"0", "_"} }
        at == CHOOSE i \in rest : \A j \in rest : i <= j
    IN IF s = "" THEN ""
       ELSE IF Head(s) # "0"
       THEN (IF Head(s) = "-" \/ AllDigits(Head(s)) THEN s ELSE "")
       ELSE IF rest = {} THEN SubSeq(s, Len(s), Len(s))
       ELSE IF SubSeq(s, at, at) = "." THEN SubSeq(s, at - 1, Len(s))
       ELSE IF SubSeq(s, at, at) = "-" \/ AllDigits(SubSeq(s, at, at))
       THEN SubSeq(s, at, Len(s))
       ELSE ""

\* pydantic-core's strip_decimal_zeros: s without its first point and what
\* follows, when that is one zero or more
StripDecimalZeros(s) ==
    LET dots == { i \in 1..Len(s) : SubSeq(s, i, i) = "." }
        dot == CHOOSE i \in dots : \A j \in dots : i <= j
    IN IF /\ dots # {} /\ dot < Len(s)
          /\ \A i \in (dot + 1)..Len(s) : SubSeq(s, i, i) = "0"
       THEN SubSeq(s, 1, dot - 1) ELSE s

\* the int that s writes after the sign neg has been taken off: a JSON
\* integer, digits with no zero before another, after at most one "-"
JsonInt(neg, s) ==
    LET minus == s # "" /\ Head(s) = "-"
        digits == IF minus THEN Tail(s) ELSE s
    IN IF /\ ~(neg /\ minus) /\ digits # "" /\ AllDigits(digits)
          /\ (Len(digits) = 1 \/ Head(digits) # "0")
       THEN Ok(Num((IF neg \/ minus THEN -1 ELSE 1) * IntVal(Decimal(digits))))
       ELSE Bad

\* pydantic-core's str_as_int on the trimmed str t: a sign is taken off (not
\* two), leading zeros are skipped, a fraction of zeros is dropped and
\* underscores are stripped
StrAsInt(t) ==
    LET plus == t # "" /\ Head(t) = "+"
        t1 == IF plus THEN Tail(t) ELSE t
        neg == t1 # "" /\ Head(t1) = "-"
        t2 == IF neg THEN Tail(t1) ELSE t1
    IN IF (plus /\ neg) \/ (neg /\ t2 # "" /\ Head(t2) \in {"-", "+"})
       THEN Bad
       ELSE JsonInt(neg, StripUnderscores(StripDecimalZeros(StripLeadingZeros(t2))))

\* pydantic's default (lax) validation of a value against int: an int, a
\* bool, a float without fraction below 2^63, a str that str_as_int reads
IntOf(v) ==
    CASE v.t = "num" -> Ok(v)
      [] v.t = "bool" -> Ok(Num(IF v.b THEN 1 ELSE 0))
      [] v.t = "float" ->
           IF v.k = "fin" /\ (v.m = << >> \/ (v.e >= 0 /\ Len(v.m) + v.e <= 63))
           THEN Ok(Num((IF v.neg THEN -1 ELSE 1)
                       * IntVal([i \in 1..v.e |-> 0] \o v.m)))
           ELSE Bad
      [] v.t = "str" -> StrAsInt(Trimmed(v.s))
      [] OTHER -> Bad

\* the double nearest to d * 10^p
Scaled(neg, d, p) ==
    IF d = << >> THEN Fin(neg, d, 0)
    ELSE IF 3 * (Len(d) - 1) + 10 * p >= 3100 THEN Inf(neg)
    ELSE IF 302 * Len(d) + 1000 * p < -325000 THEN Fin(neg, << >>, 0)
    ELSE IF p >= 0 THEN Round(neg, BMul(d, Pow10(p)), 0, FALSE)
    ELSE Quot(neg, d, Pow10(-p), 0)

\* the double that the digits whole and frac about the point, times ten to
\* the exponent with the bits exp, down when it is negative, write
Number(neg, whole, frac, exp, down) ==
    IF Len(exp) > 20
    THEN IF down \/ Decimal(whole \o frac) = << >>
         THEN Fin(neg, << >>, 0) ELSE Inf(neg)
    ELSE Scaled(neg, Decimal(whole \o frac),
                (IF down THEN -1 ELSE 1) * IntVal(exp) - Len(frac))

\* the number with the mantissa mant and, when has, the exponent ex: digits
\* with at most one "." and at least one digit, the exponent digits after
\* an optional sign
Mantissa(neg, mant, has, ex) ==
    LET exd == IF ex # "" /\ Head(ex) \in {"+", "-"} THEN Tail(ex) ELSE ex
        dots == { i \in 1..Len(mant) : SubSeq(mant, i, i) = "." }
        dot == IF dots = {} THEN Len(mant) + 1
               ELSE CHOOSE i \in dots : \A j \in dots : i <= j
    IN IF /\ AllDigits(SubSeq(mant, 1, dot - 1))
          /\ AllDigits(SubSeq(mant, dot + 1, Len(mant)))
          /\ Len(mant) > (IF dots = {} THEN 0 ELSE 1)
          /\ has => (exd # "" /\ AllDigits(exd))
       THEN Ok(Number(neg, SubSeq(mant, 1, dot - 1),
                      SubSeq(mant, dot + 1, Len(mant)), Decimal(exd),
                      ex # "" /\ Head(ex) = "-"))
       ELSE Bad

\* Rust's str::parse::<f64>, which pydantic-core reads a float with: a sign,
\* then "inf", "infinity" or "nan" in any case, or a mantissa and an
\* exponent after "e" or "E"
ParseFloat(s) ==
    LET neg == s # "" /\ Head(s) = "-"
        b == IF s # "" /\ Head(s) \in {"+", "-"} THEN Tail(s) ELSE s
        es == { i \in 1..Len(b) : SubSeq(b, i, i) \in {"e", "E"} }
        x == IF es = {} THEN Len(b) + 1 ELSE CHOOSE i \in es : \A j \in es : i <= j
    IN IF Lower(b) \in {"inf", "infinity"} THEN Ok(Inf(neg))
       ELSE IF Lower(b) = "nan" THEN Ok(NaN)
       ELSE Mantissa(neg, SubSeq(b, 1, x - 1), es # {}, SubSeq(b, x + 1, Len(b)))

\* float(v) of a number
AsFloat(v) ==
    CASE v.t = "num" -> Fin(v.n < 0, Bits(IF v.n < 0 THEN -v.n ELSE v.n), 0)
      [] v.t = "bool" -> Fin(FALSE, Bits(IF v.b THEN 1 ELSE 0), 0)
      [] v.t = "float" -> v

\* pydantic-core's str_as_float: r is what Rust reads of the trimmed str,
\* or else what it reads of the str s itself with its underscores stripped
StrAsFloat(r, s) ==
    IF r.ok THEN r
    ELSE IF StripUnderscores(s) # s THEN ParseFloat(StripUnderscores(s))
    ELSE Bad

\* ... against float: a float, an int, a bool, a str that str_as_float reads
FloatOf(v) ==
    CASE v.t \in {"num", "bool", "float"} -> Ok(AsFloat(v))
      [] v.t = "str" -> StrAsFloat(ParseFloat(Trimmed(v.s)), v.s)
      [] OTHER -> Bad

\* ... against bool: a bool, the numbers 0 and 1, a str holding one of the
\* words pydantic reads, in any case
BoolOf(v) ==
    CASE v.t = "bool" -> Ok(v)
      [] v.t = "num" -> IF v.n \in {0, 1} THEN Ok(Bool(v.n = 1)) ELSE Bad
      [] v.t = "float" ->
           IF v.k = "fin" /\ v.m = << >> THEN Ok(Bool(FALSE))
           ELSE IF v.k = "fin" /\ ~v.neg /\ v.m = <<1>> /\ v.e = 0
           THEN Ok(Bool(TRUE))
           ELSE Bad
      [] v.t = "str" ->
           IF v.s = "1" \/ Lower(v.s) \in {"on", "t", "true", "y", "yes"}
           THEN Ok(Bool(TRUE))
           ELSE IF v.s = "0" \/ Lower(v.s) \in {"off", "f", "false", "n", "no"}
           THEN Ok(Bool(FALSE))
           ELSE Bad
      [] OTHER -> Bad

\* the default of an optional field
Default(model, k) == IF k = "holidays" THEN List(<< >>) ELSE None

Record(model, fields) == [t |-> "record", model |-> model, fields |-> fields]

\* pydantic's validation of value v against annotation a: the value the
\* record gets (a number, a boolean parsed or converted; every value of a
\* mapping and every element of a list validated in its turn; a mapping
\* for a model made that model's record), or none
RECURSIVE Coerce(_, _)
Coerce(v, a) ==
    CASE a.k = "any" -> Ok(v)
      [] a.k = "optional" -> IF v = None THEN Ok(None) ELSE Coerce(v, a.of)
      [] a.k = "str" ->
           IF v.t \in {"str", "jsontext", "hexpreview"} THEN Ok(v) ELSE Bad
      [] a.k = "int" -> IntOf(v)
      [] a.k = "float" -> FloatOf(v)
      [] a.k = "bool" -> BoolOf(v)
      [] a.k = "dict" ->
           IF ~IsDict(v) THEN Bad
           ELSE LET c == [x \in DOMAIN v.f |-> Coerce(v.f[x], a.of)] IN
                IF \A x \in DOMAIN v.f : c[x].ok
                THEN Ok([v EXCEPT !.f = [x \in DOMAIN v.f |-> c[x].v]])
                ELSE Bad
      [] a.k = "list" ->
           IF ~IsList(v) THEN Bad
           ELSE LET c == [i \in 1..Len(v.q) |-> Coerce(v.q[i], a.of)] IN
                IF \A i \in 1..Len(v.q) : c[i].ok
                THEN Ok(List([i \in 1..Len(v.q) |-> c[i].v]))
                ELSE Bad
      [] a.k = "model" ->
           IF ~IsDict(v) THEN Bad
           ELSE IF ~(Required(a.of) \subseteq DOMAIN v.f) THEN Bad
           ELSE LET ks == (DOMAIN v.f) \cap Declared(a.of)
                    c == [x \in ks |-> Coerce(v.f[x], TypeOf(a.of, x))]
                IN IF \A x \in ks : c[x].ok
                   THEN Ok(Record(a.of,
                             [x \in Declared(a.of) |->
                                IF x \in ks THEN c[x].v
                                ELSE Default(a.of, x)]))
                   ELSE Bad

\* the keyword arguments f validate as the model
Valid(model, f) ==
    /\ Required(model) \subseteq DOMAIN f
    /\ \A k \in (DOMAIN f) \cap Declared(model) :
         Coerce(f[k], TypeOf(model, k)).ok

\* the optional fields are left at their defaults
BuildRequiredOnly(model, f) ==
    Record(model,
      [k \in Declared(model) |->
         IF k \notin DOMAIN f \/ k \in Optional(model) THEN Default(model, k)
         ELSE Coerce(f[k], TypeOf(model, k)).v])

\* the record validated keyword arguments become: declared fields only,
\* each at its validated value, absent optional fields at their default
Build(model, f) ==
    Record(model,
      [k \in Declared(model) |->
         IF k \notin DOMAIN f THEN Default(model, k)
         ELSE Coerce(f[k], TypeOf(model, k)).v])

\* Model(**data): data must be a mapping that validates
Construct(model, data) ==
    IF ~IsDict(data) THEN Raise("TypeError")
    ELSE IF ~Valid(model, data.f) THEN Raise("ValidationError")
    ELSE Return(Build(model, data.f))

-----------------------------------------------------------------------------
(* The capability methods (api_client.py 154-479): what each sends and     *)
(* what it makes of the value _request returns.                            *)

\* str(b).lower()
LowerStr(b) == IF b.b THEN Str("true") ELSE Str("false")

\* params[k] = v when v is truthy
SetIf(d, k, v) == IF Truthy(v) THEN SetItem(d, k, v) ELSE d

\* the query parameters a method builds from its arguments
Params(op, a) ==
    CASE op = "validate_email" -> [email |-> a.email]
      [] op = "validate_phone" ->
           SetIf([phone |-> a.phone], "country_code", a.country_code)
      [] op = "validate_vat" -> [vat_number |-> a.vat_number]
      [] op = "geolocate_ip" ->
           SetIf([ip_address |-> a.ip_address], "fields", a.fields)
      [] op = "get_ip_info" -> [ip_address |-> a.ip_address]
      [] op = "geolocate_ip_security" ->
           [ip_address |-> a.ip_address, fields |-> Str("security")]
      [] op = "get_timezone" ->
           IF Truthy(a.location) THEN [location |-> a.location]
           ELSE [latitude |-> a.latitude, longitude |-> a.longitude]
      [] op = "convert_timezone" ->
           [base_location |-> a.base_location, base_datetime |-> a.base_datetime,
            target_location |-> a.target_location]
      [] op = "get_holidays" ->
           SetIf(SetIf([country |-> a.country, year |-> a.year], "month", a.month),
                 "day", a.day)
      [] op = "get_exchange_rates" -> SetIf([base |-> a.base], "target", a.target)
      [] op = "convert_currency" ->
           SetIf([base |-> a.base, target |-> a.target], "date", a.date)
      [] op = "get_company_info" -> [domain |-> a.domain]
      [] op = "scrape_url" -> [url |-> a.url, render_js |-> LowerStr(a.render_js)]
      [] op = "generate_screenshot" ->
           [url |-> a.url, width |-> a.width, height |-> a.height,
            full_page |-> LowerStr(a.full_page)]

\* every conversion uses the live rates
AlwaysLive(date) == "live"

\* convert_currency's endpoint (api_client.py 373)
Endpoint(date) == IF ~Truthy(date) THEN "live" ELSE "historical"

\* the URL a method requests
Url(op, a) ==
    CASE op = "validate_email" -> "https://emailvalidation.abstractapi.com/v1/"
      [] op = "validate_phone" -> "https://phonevalidation.abstractapi.com/v1/"
      [] op = "validate_vat" -> "https://vatapi.abstractapi.com/v1/"
      [] op \in {"geolocate_ip", "get_ip_info", "geolocate_ip_security"} ->
           "https://ipgeolocation.abstractapi.com/v1/"
      [] op = "get_timezone" -> "https://timezone.abstractapi.com/v1/current_time/"
      [] op = "convert_timezone" ->
           "https://timezone.abstractapi.com/v1/convert_time/"
      [] op = "get_holidays" -> "https://holidays.abstractapi.com/v1/"
      [] op = "get_exchange_rates" ->
           "https://exchange-rates.abstractapi.com/v1/live/"
      [] op = "convert_currency" ->
           "https://exchange-rates.abstractapi.com/v1/" \o Endpoint(a.date) \o "/"
      [] op = "get_company_info" -> "https://companyenrichment.abstractapi.com/v1/"
      [] op = "scrape_url" -> "https://scrape.abstractapi.com/v1/"
      [] op = "generate_screenshot" -> "https://screenshot.abstractapi.com/v1/"

\* generate_screenshot on a bytes result (api_client.py 467-474)
ScreenshotOfBytes(a, data) ==
    Record("ScreenshotResponse",
           [success |-> Bool(TRUE), url |-> a.url,
            image_data |-> [t |-> "hexpreview", of |-> data],
            content_type |-> Str("image/png"),
            note |-> Str("Full image data available in response")])

\* a number: int, float or bool (True is 1)
IsNumber(v) == v.t \in {"num", "float", "bool"}

\* a == b: numbers by value (1 == 1.0 == True, 0.0 == -0.0, nan equal to
\* nothing), containers item by item
RECURSIVE PyEq(_, _)
PyEq(a, b) ==
    IF IsNumber(a) /\ IsNumber(b)
    THEN LET x == AsFloat(a)
             y == AsFloat(b)
         IN /\ x.k # "nan" /\ y.k # "nan"
            /\ x = y \/ (x.k = "fin" /\ y.k = "fin" /\ x.m = << >> /\ y.m = << >>)
    ELSE IF IsList(a) /\ IsList(b)
    THEN /\ Len(a.q) = Len(b.q)
         /\ \A i \in 1..Len(a.q) : PyEq(a.q[i], b.q[i])
    ELSE IF IsDict(a) /\ IsDict(b)
    THEN /\ DOMAIN a.f = DOMAIN b.f
         /\ \A k \in DOMAIN a.f : PyEq(a.f[k], b.f[k])
    ELSE a = b

\* s * n, from the empty str or the empty list
RECURSIVE Repeat(_, _, _)
Repeat(s, n, empty) ==
    IF n <= 0 THEN empty
    ELSE IF n = 1 THEN s
    ELSE Repeat(s, n \div 2, empty) \o Repeat(s, n - n \div 2, empty)

\* x * y of two floats: the double nearest to the product
FMul(x, y) ==
    IF x.k = "nan" \/ y.k = "nan" THEN NaN
    ELSE IF x.k = "inf" \/ y.k = "inf"
    THEN IF (x.k = "fin" /\ x.m = << >>) \/ (y.k = "fin" /\ y.m = << >>)
         THEN NaN ELSE Inf(x.neg # y.neg)
    ELSE Round(x.neg # y.neg, BMul(x.m, y.m), x.e + y.e, FALSE)

\* x * y (api_client.py 385): the product of two numbers, a float when
\* either is one; a str or a list repeated by an int; TypeError otherwise
Mul(x, y) ==
    LET n(v) == IF v.t = "bool" THEN (IF v.b THEN 1 ELSE 0) ELSE v.n
    IN IF IsNumber(x) /\ IsNumber(y)
       THEN IF x.t = "float" \/ y.t = "float"
            THEN Return(FMul(AsFloat(x), AsFloat(y)))
            ELSE Return(Num(n(x) * n(y)))
       ELSE IF x.t \in {"num", "bool"} /\ y.t = "str"
       THEN Return(Str(Repeat(y.s, n(x), "")))
       ELSE IF x.t \in {"num", "bool"} /\ IsList(y)
       THEN Return(List(Repeat(y.q, n(x), << >>)))
       ELSE IF x.t = "str" /\ y.t \in {"num", "bool"}
       THEN Return(Str(Repeat(x.s, n(y), "")))
       ELSE IF IsList(x) /\ y.t \in {"num", "bool"}
       THEN Return(List(Repeat(x.q, n(y), << >>)))
       ELSE Raise("TypeError")

\* s occurs in t
\* x in c (api_client.py 383), x a str: a key of a mapping, an element of a
\* list, a substring of a str; TypeError on a value that holds nothing
In(x, c) ==
    CASE IsDict(c) -> Return(Bool(x.s \in DOMAIN c.f))
      [] IsList(c) -> Return(Bool(\E i \in 1..Len(c.q) : c.q[i] = x))
      [] c.t = "str" ->
           Return(Bool(\E i \in 0..(Len(c.s) - Len(x.s)) :
                          SubSeq(c.s, i + 1, i + Len(x.s)) = x.s))
      [] OTHER -> Raise("TypeError")

\* the key and the value that element e of a sequence gives dict(): e must
\* be a sequence of two; of a mapping with two keys, the two keys in their
\* order
PairOf(e) ==
    CASE IsList(e) ->
           IF Len(e.q) = 2 THEN Return(<<e.q[1], e.q[2]>>) ELSE Raise("ValueError")
      [] e.t = "str" ->
           IF Len(e.s) = 2 THEN Return(<<Str(Head(e.s)), Str(Tail(e.s))>>)
           ELSE Raise("ValueError")
      [] IsDict(e) ->
           IF Len(Keys(e)) = 2
           THEN Return(<<Str(Keys(e)[1]), Str(Keys(e)[2])>>)
           ELSE Raise("ValueError")
      [] OTHER -> Raise("TypeError")

\* dict() over the elements of q from the i-th on, items being the keys and
\* values so far in insertion order: a key that is present keeps its place,
\* a key that cannot be hashed is a TypeError.  A key is present when it is
\* the same object, as every NaN of a JSON document is (json.loads gives
\* the one float json.decoder.NaN), or equal.  The result is a mapping by
\* name when every key is a str, and otherwise the items themselves
RECURSIVE FromPairs(_, _, _)
FromPairs(q, i, items) ==
    IF i > Len(q)
    THEN IF \A j \in 1..Len(items) : items[j][1].t = "str"
         THEN Return(Dict([j \in 1..Len(items) |-> items[j][1].s],
                          [k \in { items[j][1].s : j \in 1..Len(items) } |->
                             items[CHOOSE j \in 1..Len(items) :
                                     items[j][1].s = k][2]]))
         ELSE Return([t |-> "dict", items |-> items])
    ELSE LET p == PairOf(q[i]) IN
         IF p.kind = "raise" THEN p
         ELSE LET k == p.value[1]
                  v == p.value[2]
                  SameKey(a) == (a = NaN /\ k = NaN) \/ PyEq(a, k)
              IN IF IsList(k) \/ IsDict(k) THEN Raise("TypeError")
                 ELSE FromPairs(q, i + 1,
                        IF \E j \in 1..Len(items) : SameKey(items[j][1])
                        THEN [j \in 1..Len(items) |->
                                IF SameKey(items[j][1])
                                THEN <<items[j][1], v>> ELSE items[j]]
                        ELSE Append(items, <<k, v>>))

\* dict(data) (api_client.py 382): a mapping is copied; a sequence must give
\* key/value pairs (a str gives its characters, a non-empty bytes its
\* ints); a value that cannot be iterated is a TypeError
DictOf(data) ==
    CASE IsDict(data) -> Return(data)
      [] IsList(data) -> FromPairs(data.q, 1, << >>)
      [] data.t = "str" ->
           IF data.s = "" THEN Return(Obj(<< >>)) ELSE Raise("ValueError")
      [] data.t = "jsontext" -> Raise("ValueError")
      [] data.t = "bytes" ->
           IF data.of.k = "raw" /\ data.of.text = ""
           THEN Return(Obj(<< >>)) ELSE Raise("TypeError")
      [] OTHER -> Raise("TypeError")

\* api_client.py 383-386 on the copy d
Convert(a, d) ==
    IF "exchange_rates" \notin DOMAIN d.f THEN Return(d)
    ELSE LET rates == d.f["exchange_rates"]
             has == In(a.target, rates)
         IN IF has.kind = "raise" THEN has
            ELSE IF ~has.value.b THEN Return(d)
            ELSE IF ~IsDict(rates) THEN Raise("TypeError")
            ELSE LET product == Mul(a.amount, rates.f[a.target.s]) IN
                 IF product.kind = "raise" THEN product
                 ELSE Return(Dict(Keys(d) \o SelectSeq(<<"converted_amount", "amount">>,
                                                      LAMBDA k : k \notin DOMAIN d.f),
                                  SetItem(SetItem(d.f, "converted_amount",
                                                  product.value),
                                          "amount", a.amount)))

\* convert_currency after _request (api_client.py 381-388); a dict with a
\* key that is no str cannot be passed as keyword arguments
ConvertCurrency(a, data) ==
    LET d == DictOf(data) IN
    IF d.kind # "return" THEN d
    ELSE IF ~IsDict(d.value) THEN Raise("TypeError")
    ELSE LET r == Convert(a, d.value) IN
         IF r.kind # "return" THEN r
         ELSE Construct("CurrencyConversionResponse", r.value)

\* a list response is not wrapped: the record keeps its default
DropList(data) ==
    IF IsList(data)
    THEN Construct("HolidaysResponse", Obj(<< >>))
    ELSE Construct("HolidaysResponse", data)

\* get_holidays after _request (api_client.py 333-335)
GetHolidays(data) ==
    IF IsList(data)
    THEN Construct("HolidaysResponse", Obj([holidays |-> data]))
    ELSE Construct("HolidaysResponse", data)

\* what a method does with the value _request returned
MethodOutcome(op, a, out) ==
    IF out.kind # "return" THEN out
    ELSE IF op = "generate_screenshot" /\ out.value.t = "bytes"
    THEN Return(ScreenshotOfBytes(a, out.value))
    ELSE IF op = "convert_currency" THEN ConvertCurrency(a, out.value)
    ELSE IF op = "get_holidays" THEN GetHolidays(out.value)
    ELSE Construct(ModelOf(op), out.value)

-----------------------------------------------------------------------------
(* Arguments and replies.                                                  *)

\* a body that validates as the method's response model: a value of its
\* annotation for every required field
GoodBody(op) ==
    Doc(Obj([f \in Required(ModelOf(op)) |->
               LET a == TypeOf(ModelOf(op), f) IN
               CASE a.k = "bool" -> Bool(TRUE)
                 [] a.k \in {"int", "float"} -> Num(1)
                 [] a.k = "dict" ->
                      IF a.of.k = "float" THEN Obj([EUR |-> Num(2)])
                      ELSE Obj(<< >>)
                 [] a.k = "list" -> List(<< >>)
                 [] OTHER -> Str("v")]))

InvalidKey == Doc(Obj([error |-> Obj([message |-> Str("Invalid API key")])]))

\* the replies the remote service gives a call in the concurrent models
WireReplies(op) ==
    { Response(200, "application/json", GoodBody(op)),
      Response(401, "application/json", InvalidKey),
      Failure("TimeoutError", "") }
    \cup IF op = "generate_screenshot"
         THEN { Response(200, "image/png", Raw("PNG")) }
         ELSE {}

\* get_timezone's arguments
TzArgs(loc, lat, lon) == [location |-> loc, latitude |-> lat, longitude |-> lon]
NoArgs == TzArgs(None, None, None)
TimezoneArgs ==
    { NoArgs, TzArgs(None, Num(0), None), TzArgs(None, None, Num(0)),
      TzArgs(Str(""), Num(0), None), TzArgs(None, Num(0), Num(0)),
      TzArgs(Str("Paris"), None, None) }

\* the arguments callers pass to each method

AllArgs(op) ==
    CASE op = "validate_email" -> { [email |-> Str("a@b.c")] }
      [] op = "validate_phone" ->
           { [phone |-> Str("14155552671"), country_code |-> cc] :
               cc \in {None, Str("US")} }
      [] op = "validate_vat" -> { [vat_number |-> Str("SE556656688001")] }
      [] op = "geolocate_ip" ->
           { [ip_address |-> Str("8.8.8.8"), fields |-> f] :
               f \in {None, Str("city")} }
      [] op \in {"get_ip_info", "geolocate_ip_security"} ->
           { [ip_address |-> Str("8.8.8.8")] }
      [] op = "get_timezone" -> TimezoneArgs
      [] op = "convert_timezone" ->
           { [base_location |-> Str("Oxford"),
              base_datetime |-> Str("2024-01-15 13:00:00"),
              target_location |-> Str("Paris")] }
      [] op = "get_holidays" ->
           { [country |-> Str("US"), year |-> Num(2025), month |-> m, day |-> d] :
               m \in {None, Num(0), Num(12)}, d \in {None, Num(25)} }
      [] op = "get_exchange_rates" ->
           { [base |-> Str("USD"), target |-> tg] : tg \in {None, Str("EUR")} }
      [] op = "convert_currency" ->
           { [base |-> Str("USD"), target |-> Str("EUR"), amount |-> am,
              date |-> dt] :
               am \in {Num(0), Num(3), Num(100)},
               dt \in {None, Str(""), Str("2024-01-15")} }
      [] op = "get_company_info" -> { [domain |-> Str("example.com")] }
      [] op = "scrape_url" ->
           { [url |-> Str("https://example.com"), render_js |-> Bool(js)] :
               js \in BOOLEAN }
      [] op = "generate_screenshot" ->
           { [url |-> Str("https://example.com"), width |-> Num(1920),
              height |-> Num(1080), full_page |-> Bool(FALSE)] }

\* the arguments of the calls of the concurrent models
ArgsOf(op) ==
    IF op = "get_timezone" THEN TimezoneArgs
    ELSE { CHOOSE a \in AllArgs(op) : TRUE }

\* the arguments of the tool calls of the concurrent server
ToolArgs(tool) ==
    IF tool = "get_timezone" THEN { NoArgs, TzArgs(Str("Paris"), None, None) }
    ELSE ArgsOf(tool)


\* the defaults of a tool's optional parameters (server.py 116 ... 452)
ToolDefaults(tool) ==
    CASE tool = "validate_phone" -> [country_code |-> None]
      [] tool = "geolocate_ip" -> [fields |-> None]
      [] tool = "get_timezone" ->
           [location |-> None, latitude |-> None, longitude |-> None]
      [] tool = "get_holidays" -> [month |-> None, day |-> None]
      [] tool = "get_exchange_rates" -> [base |-> Str("USD"), target |-> None]
      [] tool = "convert_currency" -> [date |-> None]
      [] tool = "scrape_url" -> [render_js |-> Bool(FALSE)]
      [] tool = "generate_screenshot" ->
           [width |-> Num(1920), height |-> Num(1080), full_page |-> Bool(FALSE)]
      [] OTHER -> << >>

\* what callers supply to a tool: every parameter, or the required ones only
Supplied(tool) ==
    AllArgs(tool)
    \cup { [k \in (DOMAIN a) \ (DOMAIN ToolDefaults(tool)) |-> a[k]] :
             a \in AllArgs(tool) }

\* the optional parameters are passed at their defaults, supplied or not
PassDefaults(tool, given) ==
    [k \in (DOMAIN given) \cup (DOMAIN ToolDefaults(tool)) |->
       IF k \in DOMAIN ToolDefaults(tool) THEN ToolDefaults(tool)[k] ELSE given[k]]

\* the arguments the tool passes to the method: what the caller supplied,
\* an omitted optional parameter at its default
PassArgs(tool, given) ==
    [k \in (DOMAIN given) \cup (DOMAIN ToolDefaults(tool)) |->
       IF k \in DOMAIN given THEN given[k] ELSE ToolDefaults(tool)[k]]

-----------------------------------------------------------------------------
(* The environment.                                                        *)

\* no service has a key of its own
NoScopedKey(e, service) == None

\* os.environ.get("ABSTRACT_<SERVICE>_API_KEY") (server.py 50)
ServiceKey(e, service) == e.service[service]

Env(g, K) ==
    [generic |-> g,
     service |-> [s \in Services |-> IF s \in K THEN Str("key-" \o s) ELSE None]]


-----------------------------------------------------------------------------
(* Sessions and the registry.                                              *)


\* _ensure_session (api_client.py 62-72) on a client whose timeout is tmo
EnsureSession(sess, c, tmo) ==
    IF sess[c] = None
    THEN [sess EXCEPT ![c] = [t |-> "session", closed |-> FALSE,
                              timeout |-> tmo]]
    ELSE sess

\* service in _clients
Cached(reg, service) == \E i \in 1..Len(reg) : reg[i].service = service

\* _clients[service]
Lookup(reg, service) ==
    reg[CHOOSE i \in 1..Len(reg) : reg[i].service = service].client

\* every lookup misses
AlwaysMiss(reg, service) == TRUE

\* service not in _clients (server.py 65)
Miss(reg, service) == ~Cached(reg, service)

\* first write wins
PutIfAbsent(reg, service, c) ==
    IF Cached(reg, service) THEN reg
    ELSE Append(reg, [service |-> service, client |-> c])

\* _clients[service] = c: a new key goes last, a present key keeps its place
Put(reg, service, c) ==
    IF Cached(reg, service)
    THEN [i \in 1..Len(reg) |->
            IF reg[i].service = service
            THEN [service |-> service, client |-> c] ELSE reg[i]]
    ELSE Append(reg, [service |-> service, client |-> c])

-----------------------------------------------------------------------------
(* A coroutine: a tool call, or a call of a client method by a caller that *)
(* holds the client.                                                       *)

NoResult == [kind |-> "none"]
IdleTask ==
    [pc |-> "idle", via |-> "none", tool |-> "none", given |-> NoArgs,
     op |-> "none", service |-> "none",
     client |-> 0, args |-> NoArgs, orig |-> 0,
     req |-> [timeout |-> 0, url |-> "", params |-> << >>], sent |-> 0,
     warned |-> 0, reported |-> 0, held |-> None, raw |-> NoResult,
     result |-> NoResult, ctx |-> FALSE]

\* the configured timeout, whatever the session's is
ConfiguredTimeout(s, tmo) == tmo

\* the timeout session.get applies: none is passed, so the session's own
RequestTimeout(s, tmo) == s.timeout

\* "or" in place of "and": one coordinate is enough
EitherCoordinate(a) ==
    Truthy(a.location) \/ a.latitude # None \/ a.longitude # None

\* get_timezone's argument check (api_client.py 270-276)
ValidTimezoneArgs(a) ==
    Truthy(a.location) \/ (a.latitude # None /\ a.longitude # None)

\* the restore runs only after a normal return
RestoreOnReturn(rec, c, sess, out) ==
    IF rec.op \in Overriding /\ sess[c] # None /\ out.kind = "return"
    THEN [sess EXCEPT ![c].timeout = rec.orig] ELSE sess

\* the finally block of scrape_url and generate_screenshot (427-429, 477-479)
Restore(rec, c, sess, out) ==
    IF rec.op \in Overriding /\ sess[c] # None
    THEN [sess EXCEPT ![c].timeout = rec.orig] ELSE sess

\* the tool swallows the error: nothing is reported, None is returned
SwallowError(rec, out) ==
    IF rec.via = "tool" /\ out.kind = "raise" /\ Caught(rec.op, out.exc)
    THEN [rec EXCEPT !.pc = "done", !.result = Return(None)]
    ELSE [rec EXCEPT !.pc = "done", !.result = out]

\* the tool's except clause: a caught exception is reported, then re-raised;
\* ctx.error of a ctx that is None is an AttributeError in its place
AfterMethod(rec, out) ==
    IF rec.via = "tool" /\ out.kind = "raise" /\ Caught(rec.op, out.exc)
    THEN IF rec.ctx
         THEN [rec EXCEPT !.pc = "error", !.result = out, !.reported = @ + 1]
         ELSE [rec EXCEPT !.pc = "done", !.result = Raise("AttributeError")]
    ELSE [rec EXCEPT !.pc = "done", !.result = out]

\* the method ends with out: its finally block, then the tool's handler
Complete(rec, c, sess, out) ==
    [sess |-> Restore(rec, c, sess, out), task |-> AfterMethod(rec, out)]


\* _request up to the GET (api_client.py 97-109); a closed session refuses it
StartRequest(rec, c, sess, tmo, key) ==
    LET s1 == EnsureSession(sess, c, tmo) IN
    IF s1[c].closed
    THEN Complete(rec, c, s1, Raise("RuntimeError"))
    ELSE [sess |-> s1,
          task |-> [rec EXCEPT !.pc = "get", !.sent = @ + 1,
                               !.req = [timeout |-> RequestTimeout(s1[c], tmo),
                                        url |-> Url(rec.op, rec.args),
                                        params |-> SetIf(Params(rec.op, rec.args),
                                                         "api_key", key)]]]

\* a client method from its first line to its first suspension
Begin(rec, c, sess, tmo, key) ==
    IF rec.op = "get_timezone" /\ ~ValidTimezoneArgs(rec.args)
    THEN [sess |-> sess, task |-> AfterMethod(rec, Raise("ValueError"))]
    ELSE IF rec.op \in Overriding
    THEN StartRequest([rec EXCEPT !.orig = tmo], c,
                      IF sess[c] # None
                      THEN [sess EXCEPT ![c].timeout = ExtendedTimeout] ELSE sess,
                      tmo, key)
    ELSE StartRequest(rec, c, sess, tmo, key)

NewCall(via, op, service, c, args) ==
    [IdleTask EXCEPT !.via = via, !.op = op, !.service = service, !.client = c,
                     !.args = args]

\* a new invocation takes the lowest free coroutine slot
Free(t) == tasks[t].pc \in {"idle", "done"}
CanStart(t, max) ==
    /\ Free(t)
    /\ \A u \in Tasks : u < t => ~Free(u)
    /\ calls < max

InFlight == { t \in Tasks : tasks[t].pc = "get" }

\* rec is a tool call given a Context, as the calls the MCP server
\* dispatches are
Dispatched(rec) == rec.via = "tool" /\ rec.ctx

-----------------------------------------------------------------------------
(* The server: get_client, the tools, shutdown_event.                      *)

\* get_client from the construction on (server.py 72-74), then the tool's
\* call of the client method, up to its first suspension
Install(t, rec, key) ==
    LET c == made + 1
        k == Or(key, env.generic)
        reg == Put(clients, rec.service, c)
        got == Lookup(reg, rec.service)
        b == Begin([rec EXCEPT !.client = got], got,
                   [session EXCEPT ![c] = None],
                   IF got = c THEN DefaultTimeout ELSE timeout[got],
                   IF got = c THEN k ELSE api_key[got])
    IN /\ made' = c
       /\ api_key' = [api_key EXCEPT ![c] = k]
       /\ timeout' = [timeout EXCEPT ![c] = DefaultTimeout]
       /\ owner' = [owner EXCEPT ![c] = rec.service]
       /\ clients' = reg
       /\ session' = b.sess
       /\ tasks' = [tasks EXCEPT ![t] = b.task]

\* a tool is invoked, with a Context (ctx) or with None in its place: the
\* test "if ctx is None: raise ValueError" that eight tools begin with
\* (server.py 132, 182, 259, 322, 350, 383, 434, 468), get_client (server.py
\* 65-74), then the client method.  ctx.warning of a ctx that is None is an
\* AttributeError
ToolCall(t, tool, args, ctx) ==
    /\ CanStart(t, MaxCalls)
    /\ calls' = calls + 1
    /\ LET s == ServiceOf(tool)
           rec == [NewCall("tool", tool, s, 0, PassArgs(tool, args))
                     EXCEPT !.tool = tool, !.given = args, !.ctx = ctx]
       IN IF /\ ~ctx
             /\ tool \in {"validate_phone", "geolocate_ip", "get_timezone",
                          "get_holidays", "get_exchange_rates",
                          "convert_currency", "scrape_url",
                          "generate_screenshot"}
          THEN /\ tasks' = [tasks EXCEPT ![t] =
                              [rec EXCEPT !.pc = "done", !.service = "none",
                                          !.result = Raise("ValueError")]]
               /\ UNCHANGED <<clients, made, api_key, timeout, session, owner>>
          ELSE IF ~Miss(clients, s)
          THEN LET c == Lookup(clients, s)
                   b == Begin([rec EXCEPT !.client = c], c, session,
                              timeout[c], api_key[c])
               IN /\ session' = b.sess
                  /\ tasks' = [tasks EXCEPT ![t] = b.task]
                  /\ UNCHANGED <<clients, made, api_key, timeout, owner>>
          ELSE IF Truthy(ServiceKey(env, s))
          THEN /\ made + Cardinality({ u \in Tasks : tasks[u].pc = "warning" })
                    < MaxClients
               /\ Install(t, rec, ServiceKey(env, s))
          ELSE IF ctx
          THEN /\ made + Cardinality({ u \in Tasks : tasks[u].pc = "warning" })
                    < MaxClients
               /\ tasks' = [tasks EXCEPT ![t] =
                              [rec EXCEPT !.pc = "warning", !.warned = 1]]
               /\ UNCHANGED <<clients, made, api_key, timeout, session, owner>>
          ELSE /\ tasks' = [tasks EXCEPT ![t] =
                              [rec EXCEPT !.pc = "done",
                                          !.result = Raise("AttributeError")]]
               /\ UNCHANGED <<clients, made, api_key, timeout, session, owner>>
    /\ UNCHANGED <<env, shut, reply, outcome, health>>

\* a missing key is an error: the call ends where it would have been warned
RejectMissingKey(t) ==
    /\ tasks[t].pc = "warning"
    /\ tasks' = [tasks EXCEPT ![t] = AfterMethod(tasks[t], Raise("ValueError"))]
    /\ UNCHANGED <<env, clients, made, api_key, timeout, session, owner, shut,
                   calls, reply, outcome, health>>

\* ctx.warning returns: get_client constructs, caches and returns
ResumeWarning(t) ==
    /\ tasks[t].pc = "warning"
    /\ Install(t, tasks[t], ServiceKey(env, tasks[t].service))
    /\ UNCHANGED <<env, shut, calls, reply, outcome, health>>

\* a failed attempt is followed by a second GET
RetryOnFailure(t, r) ==
    /\ tasks[t].pc = "get"
    /\ LET rec == [tasks[t] EXCEPT !.raw = RequestOutcome(r)]
           out == MethodOutcome(rec.op, rec.args, rec.raw)
           b == Complete(rec, rec.client, session, out)
       IN IF rec.raw.kind = "raise" /\ rec.sent < 2
          THEN /\ session' = session
               /\ tasks' = [tasks EXCEPT ![t].sent = @ + 1]
          ELSE /\ session' = b.sess
               /\ tasks' = [tasks EXCEPT ![t] = b.task]
    /\ UNCHANGED <<env, clients, made, api_key, timeout, owner, shut, calls,
                   reply, outcome, health>>

\* the GET ends: the rest of _request, of the method and of the tool
Reply(t, r) ==
    /\ tasks[t].pc = "get"
    /\ LET rec == [tasks[t] EXCEPT !.raw = RequestOutcome(r)]
           out == MethodOutcome(rec.op, rec.args, rec.raw)
           b == Complete(rec, rec.client, session, out)
       IN /\ session' = b.sess
          /\ tasks' = [tasks EXCEPT ![t] = b.task]
    /\ UNCHANGED <<env, clients, made, api_key, timeout, owner, shut, calls,
                   reply, outcome, health>>

\* ctx.error returns: the tool re-raises
ResumeError(t) ==
    /\ tasks[t].pc = "error"
    /\ tasks' = [tasks EXCEPT ![t].pc = "done"]
    /\ UNCHANGED <<env, clients, made, api_key, timeout, session, owner, shut,
                   calls, reply, outcome, health>>

RECURSIVE CloseLoop(_, _, _)
\* shutdown_event's loop from dict position i to its next suspension:
\* close() is immediate on a client without session (or with a closed one)
CloseLoop(i, reg, sess) ==
    IF i > Len(reg) THEN [idx |-> i, sess |-> sess, suspended |-> FALSE]
    ELSE LET c == reg[i].client IN
         IF sess[c] = None THEN CloseLoop(i + 1, reg, sess)
         ELSE IF sess[c].closed
         THEN CloseLoop(i + 1, reg, [sess EXCEPT ![c] = None])
         ELSE [idx |-> i, sess |-> [sess EXCEPT ![c].closed = TRUE],
               suspended |-> TRUE]


\* the loop advances to l: suspended in a close, or over and the dict cleared
Advance(l, size) ==
    /\ session' = l.sess
    /\ IF l.suspended
       THEN /\ shut' = [pc |-> "closing", idx |-> l.idx, size |-> size,
                        cur |-> clients[l.idx].client]
            /\ clients' = clients
       ELSE /\ shut' = [pc |-> "done", idx |-> l.idx, size |-> size, cur |-> 0]
            /\ clients' = << >>

\* shutdown_event starts (server.py 485-492)
ShutdownStart ==
    /\ shut.pc = "idle"
    /\ Advance(CloseLoop(1, clients, session), Len(clients))
    /\ UNCHANGED <<env, made, api_key, timeout, owner, tasks, calls, reply,
                   outcome, health>>

\* session.close() returns inside shutdown_event: close() drops the session,
\* then the dict iterator refuses to go on if the dict's size has changed
ShutdownResume ==
    /\ shut.pc = "closing"
    /\ LET sess == [session EXCEPT ![shut.cur] = None] IN
       IF Len(clients) # shut.size
       THEN /\ shut' = [shut EXCEPT !.pc = "failed"]
            /\ session' = sess
            /\ clients' = clients
       ELSE Advance(CloseLoop(shut.idx + 1, clients, sess), shut.size)
    /\ UNCHANGED <<env, made, api_key, timeout, owner, tasks, calls, reply,
                   outcome, health>>

\* starlette's JSONResponse(content): status 200 unless one is given
JSONResponse(content) == [status |-> 200, body |-> content]

\* the health endpoint probes its dependencies: unavailable once the server
\* has begun to shut down
HealthCheckDeep ==
    /\ Len(health) < MaxHealthChecks
    /\ health' = Append(health,
                    IF shut.pc = "idle"
                    THEN JSONResponse(Obj([status |-> Str("healthy"),
                                           service |-> Str("mcp-abstract-api")]))
                    ELSE [status |-> 503,
                          body |-> Obj([status |-> Str("unhealthy"),
                                        service |-> Str("mcp-abstract-api")])])
    /\ UNCHANGED <<env, clients, made, api_key, timeout, session, owner, tasks,
                   shut, calls, reply, outcome>>

\* GET /health (server.py 78-88): no await, nothing read, nothing written
HealthCheck ==
    /\ Len(health) < MaxHealthChecks
    /\ health' = Append(health,
                    JSONResponse(Obj([status |-> Str("healthy"),
                                      service |-> Str("mcp-abstract-api")])))
    /\ UNCHANGED <<env, clients, made, api_key, timeout, session, owner, tasks,
                   shut, calls, reply, outcome>>

-----------------------------------------------------------------------------
(* The client used directly, as the tests do.                              *)

\* AbstractClient(api_key, timeout) (api_client.py 38-51): the one client
\* the callers of SpecClient share
NewClient(key, tmo) ==
    /\ made = 0
    /\ made' = made + 1
    /\ api_key' = [api_key EXCEPT ![made + 1] = Or(key, env.generic)]
    /\ timeout' = [timeout EXCEPT ![made + 1] = tmo]
    /\ session' = [session EXCEPT ![made + 1] = None]
    /\ UNCHANGED <<env, clients, owner, tasks, shut, calls, reply, outcome, health>>

\* async with client: __aenter__ opens the session (api_client.py 53-56)
Enter(c) ==
    /\ c \in 1..made
    /\ session' = EnsureSession(session, c, timeout[c])
    /\ UNCHANGED <<env, clients, made, api_key, timeout, owner, tasks, shut, calls,
                   reply, outcome, health>>

\* a caller invokes a capability method of client c
Call(t, c, op, args) ==
    /\ CanStart(t, MaxDirectCalls)
    /\ c \in 1..made
    /\ calls' = calls + 1
    /\ LET b == Begin(NewCall("direct", op, "none", c, args), c, session,
                      timeout[c], api_key[c])
       IN /\ session' = b.sess
          /\ tasks' = [tasks EXCEPT ![t] = b.task]
    /\ UNCHANGED <<env, clients, made, api_key, timeout, owner, shut, reply,
                   outcome, health>>

\* close() without its guard: session.close() on no session
CloseUnguarded(t, c) ==
    /\ CanStart(t, MaxDirectCalls)
    /\ c \in 1..made
    /\ calls' = calls + 1
    /\ LET rec == [NewCall("direct", "close", "none", c, NoArgs)
                    EXCEPT !.held = session[c]] IN
       IF session[c] = None
       THEN /\ tasks' = [tasks EXCEPT ![t] =
                           AfterMethod(rec, Raise("AttributeError"))]
            /\ session' = session
       ELSE IF session[c].closed
       THEN /\ tasks' = [tasks EXCEPT ![t] = AfterMethod(rec, Return(None))]
            /\ session' = [session EXCEPT ![c] = None]
       ELSE /\ tasks' = [tasks EXCEPT ![t] = [rec EXCEPT !.pc = "closing"]]
            /\ session' = [session EXCEPT ![c].closed = TRUE]
    /\ UNCHANGED <<env, clients, made, api_key, timeout, owner, shut, reply,
                   outcome, health>>

\* a caller invokes close() (api_client.py 74-78); held records the session
\* the client had when it was called
CallClose(t, c) ==
    /\ CanStart(t, MaxDirectCalls)
    /\ c \in 1..made
    /\ calls' = calls + 1
    /\ LET rec == [NewCall("direct", "close", "none", c, NoArgs)
                    EXCEPT !.held = session[c]] IN
       IF session[c] = None
       THEN /\ tasks' = [tasks EXCEPT ![t] = AfterMethod(rec, Return(None))]
            /\ session' = session
       ELSE IF session[c].closed
       THEN /\ tasks' = [tasks EXCEPT ![t] = AfterMethod(rec, Return(None))]
            /\ session' = [session EXCEPT ![c] = None]
       ELSE /\ tasks' = [tasks EXCEPT ![t] = [rec EXCEPT !.pc = "closing"]]
            /\ session' = [session EXCEPT ![c].closed = TRUE]
    /\ UNCHANGED <<env, clients, made, api_key, timeout, owner, shut, reply,
                   outcome, health>>

\* session.close() returns inside close(): self._session = None
ResumeClose(t) ==
    /\ tasks[t].pc = "closing"
    /\ session' = [session EXCEPT ![tasks[t].client] = None]
    /\ tasks' = [tasks EXCEPT ![t] =
                    AfterMethod(tasks[t], IF tasks[t].op = "scope"
                                          THEN tasks[t].raw ELSE Return(None))]
    /\ UNCHANGED <<env, clients, made, api_key, timeout, owner, shut, calls,
                   reply, outcome, health>>

\* async with client: __aenter__ opens the session (api_client.py 53-56) and
\* the body of the scope begins
ScopeEnter(t, c) ==
    /\ CanStart(t, MaxDirectCalls)
    /\ c \in 1..made
    /\ calls' = calls + 1
    /\ session' = EnsureSession(session, c, timeout[c])
    /\ tasks' = [tasks EXCEPT ![t] =
                    [NewCall("direct", "scope", "none", c, NoArgs)
                       EXCEPT !.pc = "inside"]]
    /\ UNCHANGED <<env, clients, made, api_key, timeout, owner, shut, reply,
                   outcome, health>>


\* close() is skipped when the body raised
LeakOnException(t, out) ==
    /\ tasks[t].pc = "inside"
    /\ InFlight = {}
    /\ LET rec == [tasks[t] EXCEPT !.raw = out]
           c == rec.client
       IN IF session[c] = None \/ out.kind = "raise"
          THEN /\ tasks' = [tasks EXCEPT ![t] = AfterMethod(rec, out)]
               /\ session' = session
          ELSE /\ tasks' = [tasks EXCEPT ![t] = [rec EXCEPT !.pc = "closing"]]
               /\ session' = [session EXCEPT ![c].closed = TRUE]
    /\ UNCHANGED <<env, clients, made, api_key, timeout, owner, shut, calls,
                   reply, outcome, health>>

\* the body of the scope ends with out, its calls over: __aexit__ runs
\* close() (api_client.py 58-60, 74-78) and lets an exception propagate
ScopeExit(t, out) ==
    /\ tasks[t].pc = "inside"
    /\ InFlight = {}
    /\ LET rec == [tasks[t] EXCEPT !.raw = out]
           c == rec.client
       IN IF session[c] = None
          THEN /\ tasks' = [tasks EXCEPT ![t] = AfterMethod(rec, out)]
               /\ session' = session
          ELSE IF session[c].closed
          THEN /\ tasks' = [tasks EXCEPT ![t] = AfterMethod(rec, out)]
               /\ session' = [session EXCEPT ![c] = None]
          ELSE /\ tasks' = [tasks EXCEPT ![t] = [rec EXCEPT !.pc = "closing"]]
               /\ session' = [session EXCEPT ![c].closed = TRUE]
    /\ UNCHANGED <<env, clients, made, api_key, timeout, owner, shut, calls,
                   reply, outcome, health>>

-----------------------------------------------------------------------------
(* _request in isolation: one reply, handled once.                         *)

NoReply == [is |-> "none"]

Request ==
    /\ outcome = NoResult
    /\ outcome' = RequestOutcome(reply)
    /\ UNCHANGED <<env, clients, made, api_key, timeout, session, owner, tasks,
                   shut, calls, reply, health>>

-----------------------------------------------------------------------------
(* Specifications.                                                         *)

NoEnv == [generic |-> None, service |-> [s \in Services |-> None]]

InitState ==
    /\ clients = << >>
    /\ made = 0
    /\ api_key = [c \in ClientIds |-> None]
    /\ timeout = [c \in ClientIds |-> 0]
    /\ session = [c \in ClientIds |-> None]
    /\ owner = [c \in ClientIds |-> "none"]
    /\ tasks = [t \in Tasks |-> IdleTask]
    /\ shut = [pc |-> "idle", idx |-> 0, size |-> 0, cur |-> 0]
    /\ calls = 0
    /\ outcome = NoResult
    /\ health = << >>

\* the server
Init ==
    /\ InitState
    /\ env \in { Env(None, {}), Env(Str("generic-key"), {"email"}) }
    /\ reply = NoReply

Next ==
    \/ \E t \in Tasks, tool \in Tools, ctx \in BOOLEAN :
           \E args \in ToolArgs(tool) : ToolCall(t, tool, args, ctx)
    \/ \E t \in Tasks : ResumeWarning(t)
    \/ \E t \in InFlight : \E r \in WireReplies(tasks[t].op) : Reply(t, r)
    \/ \E t \in Tasks : ResumeError(t)
    \/ ShutdownStart
    \/ ShutdownResume

Spec == Init /\ [][Next]_vars

\* the server with its health endpoint
NextHealth ==
    \/ \E t \in Tasks, tool \in {"validate_email", "scrape_url"}, ctx \in BOOLEAN :
           \E args \in ToolArgs(tool) : ToolCall(t, tool, args, ctx)
    \/ \E t \in Tasks : ResumeWarning(t)
    \/ \E t \in InFlight :
           \E r \in { Response(200, "application/json",
                                GoodBody(tasks[t].op)),
                       Response(401, "application/json", InvalidKey) } :
               Reply(t, r)
    \/ \E t \in Tasks : ResumeError(t)
    \/ ShutdownStart
    \/ ShutdownResume
    \/ HealthCheck

SpecHealth == Init /\ [][NextHealth]_vars

\* the server draining: no tool is invoked once shutdown_event has started
NextDrain ==
    \/ \E t \in Tasks, tool \in Tools, ctx \in BOOLEAN :
           \E args \in ToolArgs(tool) :
               shut.pc = "idle" /\ ToolCall(t, tool, args, ctx)
    \/ \E t \in Tasks : ResumeWarning(t)
    \/ \E t \in InFlight : \E r \in WireReplies(tasks[t].op) : Reply(t, r)
    \/ \E t \in Tasks : ResumeError(t)
    \/ ShutdownStart
    \/ ShutdownResume

SpecDrain == Init /\ [][NextDrain]_vars

\* the client library under concurrent callers
InitClient == InitState /\ env = NoEnv /\ reply = NoReply

NextClient ==
    \/ \E key \in {None, Str("test_key")}, tmo \in Timeouts : NewClient(key, tmo)
    \/ \E c \in ClientIds : Enter(c)
    \/ \E t \in Tasks, c \in ClientIds, op \in Methods : \E args \in ArgsOf(op) :
           Call(t, c, op, args)
    \/ \E t \in Tasks, c \in ClientIds : CallClose(t, c)
    \/ \E t \in Tasks : ResumeClose(t)
    \/ \E t \in InFlight : \E r \in WireReplies(tasks[t].op) : Reply(t, r)

SpecClient == InitClient /\ [][NextClient]_vars

\* _request on every reply
InitRequest == InitState /\ env = NoEnv /\ reply \in Replies

NextRequest == Request

SpecRequest == InitRequest /\ [][NextRequest]_vars

-----------------------------------------------------------------------------
(* Claims about _request, checked under SpecRequest.                       *)

Handled == outcome # NoResult
ErrorResponse == reply.is = "response" /\ reply.status >= 400
RaisedAPIError == outcome.kind = "raise" /\ outcome.exc = "AbstractAPIError"

\* C1: whatever the content type and the body of a response with status >= 400,
\* _request raises AbstractAPIError and returns no value.
C1_ErrorStatusAlwaysRaises ==
    (Handled /\ ErrorResponse) => RaisedAPIError

\* C2: every network-level failure of the GET leaves _request as an
\* AbstractAPIError with status 500, a message describing the failure and the
\* failure as its cause; no other exception escapes.
C2_NetworkFailureNormalized ==
    (Handled /\ reply.is = "failure") =>
        /\ RaisedAPIError
        /\ outcome.status = 500
        /\ outcome.message = Str("Network error: " \o reply.text)
        /\ outcome.cause = Str(reply.exc)

\* the message C3 states: the first available of error.message (error an
\* object), message, title, the stringified error field, "Unknown error"
ClaimedMessage(o) ==
    LET e == Get(o, "error", None) IN
    IF IsDict(e) /\ Get(e, "message", None) # None THEN Get(e, "message", None)
    ELSE IF Truthy(Get(o, "message", None)) THEN Get(o, "message", None)
    ELSE IF Truthy(Get(o, "title", None)) THEN Get(o, "title", None)
    ELSE IF "error" \in DOMAIN o.f THEN PyStr(e)
    ELSE Str("Unknown error")

\* C3: for an error response whose decoded body is a JSON object, the raised
\* error carries the response status and, as message, the first available of
\* error.message, message, title, str(error), "Unknown error".
C3_MessagePrecedence ==
    ( /\ Handled /\ ErrorResponse /\ RaisedAPIError
      /\ reply.body.k = "doc" /\ IsDict(reply.body.v)
      /\ outcome.details = reply.body.v )
    => /\ outcome.status = reply.status
       /\ outcome.message = ClaimedMessage(reply.body.v)

-----------------------------------------------------------------------------
(* Claims about the client's methods, checked under SpecClient.            *)

\* task t starts an invocation in this step
Starts(t) == calls' = calls + 1 /\ CanStart(t, calls + 1)

OverrideInFlight(c) ==
    \E t \in Tasks :
        tasks[t].pc = "get" /\ tasks[t].client = c /\ tasks[t].op \in Overriding

\* C4: get_timezone with no location and without both coordinates raises
\* ValueError at once: it issues no GET and leaves every session as it was.
C4_TimezoneValidatesBeforeNetwork ==
    [][\A t \in Tasks :
         ( /\ Starts(t)
           /\ tasks'[t].op = "get_timezone"
           /\ ~Truthy(tasks'[t].args.location)
           /\ (tasks'[t].args.latitude = None \/ tasks'[t].args.longitude = None) )
         => /\ tasks'[t].pc = "done"
            /\ tasks'[t].result = Raise("ValueError")
            /\ tasks'[t].sent = 0
            /\ session' = session]_vars

\* C4 witness: a get_timezone call given one coordinate only has ended in
\* ValueError on a client that still has no session.
C4_Witness ==
    \E t \in Tasks :
        /\ tasks[t].op = "get_timezone" /\ tasks[t].pc = "done"
        /\ tasks[t].args = TzArgs(None, Num(0), None)
        /\ tasks[t].result = Raise("ValueError")
        /\ tasks[t].sent = 0
        /\ session[tasks[t].client] = None

\* C5: while a scrape_url or generate_screenshot call has its GET in flight,
\* the GET runs under the timeout 60 and the session's timeout is 60.
C5_ExtendedTimeoutInForce ==
    \A t \in Tasks :
        (tasks[t].pc = "get" /\ tasks[t].op \in Overriding) =>
            /\ tasks[t].req.timeout = ExtendedTimeout
            /\ session[tasks[t].client] # None
            /\ session[tasks[t].client].timeout = ExtendedTimeout

\* C6: whenever no scrape_url or generate_screenshot call is in flight on a
\* client that has a session, the session's timeout is the configured one.
C6_TimeoutRestored ==
    \A c \in 1..made :
        (~OverrideInFlight(c) /\ session[c] # None) =>
            session[c].timeout = timeout[c]

\* C6 witness: a scrape_url or generate_screenshot call that ran under the
\* widened timeout has ended by raising, and the session is back at the
\* configured timeout.
C6_Witness ==
    \E t \in Tasks :
        /\ tasks[t].op \in Overriding /\ tasks[t].pc = "done"
        /\ tasks[t].result.kind = "raise"
        /\ tasks[t].req.timeout = ExtendedTimeout
        /\ ~OverrideInFlight(tasks[t].client)
        /\ session[tasks[t].client] # None
        /\ session[tasks[t].client].timeout = timeout[tasks[t].client]

\* C10: a call other than scrape_url / generate_screenshot issues its GET
\* under the timeout the shared session has at that moment, so under 60 while
\* an override is applied.
C10_OverrideNotIsolated ==
    [][\A t \in Tasks :
         ( /\ Starts(t)
           /\ tasks'[t].pc = "get"
           /\ tasks'[t].op \notin Overriding
           /\ session[tasks'[t].client] # None )
         => tasks'[t].req.timeout = session[tasks'[t].client].timeout]_vars

\* C10 witness: a validate_email or get_timezone call started while a
\* scrape_url / generate_screenshot call is in flight on the same client has
\* its GET running under 60, not under the configured timeout.
C10_Witness ==
    \E t \in Tasks :
        /\ tasks[t].pc = "get" /\ tasks[t].op \notin Overriding
        /\ OverrideInFlight(tasks[t].client)
        /\ tasks[t].req.timeout = ExtendedTimeout
        /\ tasks[t].req.timeout # timeout[tasks[t].client]

-----------------------------------------------------------------------------
(* Claims about the registry, checked under Spec.                          *)

\* shutdown_event completes in this step
ShutdownCompletes == shut.pc # "done" /\ shut'.pc = "done"

PendingFor(service) ==
    \E t \in Tasks : tasks[t].pc = "warning" /\ tasks[t].service = service

EntryKept(i) ==
    /\ Cached(clients', clients[i].service)
    /\ Lookup(clients', clients[i].service) = clients[i].client

\* C7: when shutdown_event completes the registry is empty, and no client it
\* removes from the registry holds a session.
C7_ShutdownReleasesThenClears ==
    [][ShutdownCompletes =>
         /\ clients' = << >>
         /\ \A i \in 1..Len(clients) : session'[clients[i].client] = None]_vars

\* C8 as stated: short of shutdown's clear, a cached entry is never removed
\* or replaced.
C8_EntryNeverReplaced ==
    [][\A i \in 1..Len(clients) : ~ShutdownCompletes => EntryKept(i)]_vars

\* C8 amended: short of shutdown's clear, a cached entry is removed or
\* replaced only by a get_client call for its name that missed the cache
\* before the entry was written and is still suspended.
C8_EntryKeptUnlessPendingMiss ==
    [][\A i \in 1..Len(clients) :
         (~ShutdownCompletes /\ ~PendingFor(clients[i].service))
             => EntryKept(i)]_vars

\* C8 witness: a call made through a cached client has failed and the client
\* is still the registry's entry for its service.
C8_Witness ==
    \E t \in Tasks :
        /\ Dispatched(tasks[t]) /\ tasks[t].pc = "done"
        /\ tasks[t].result.kind = "raise"
        /\ tasks[t].result.exc = "AbstractAPIError"
        /\ Cached(clients, tasks[t].service)
        /\ Lookup(clients, tasks[t].service) = tasks[t].client

\* the client constructed last for a service
LastMade(service) ==
    CHOOSE c \in 1..made :
        /\ owner[c] = service
        /\ \A d \in 1..made : owner[d] = service => d <= c

\* get_client returns to task t, a tool call given a Context, in this step
Resolves(t) ==
    /\ Dispatched(tasks'[t])
    /\ tasks'[t].pc # "warning"
    /\ \/ Starts(t)
       \/ tasks[t].pc = "warning"

\* C9: the registry holds one client per service name, the one written last,
\* and a get_client call returns the client the registry holds when it returns.
C9_LaterWriteWins ==
    /\ [](\A i \in 1..Len(clients) :
            /\ clients[i].client = LastMade(clients[i].service)
            /\ \A j \in 1..Len(clients) :
                 clients[j].service = clients[i].service => j = i)
    /\ [][\A t \in Tasks :
            Resolves(t) =>
                /\ Cached(clients', tasks'[t].service)
                /\ tasks'[t].client = Lookup(clients', tasks'[t].service)]_vars

\* C9 witness: two get_client calls for one service name have interleaved,
\* two clients were constructed, both calls have returned, and the registry
\* holds the second.
C9_Witness ==
    \E t, u \in Tasks :
        /\ t # u
        /\ Dispatched(tasks[t]) /\ Dispatched(tasks[u])
        /\ tasks[t].service = tasks[u].service
        /\ tasks[t].pc \notin {"idle", "warning"}
        /\ tasks[u].pc \notin {"idle", "warning"}
        /\ tasks[t].client = 1 /\ tasks[u].client = 2
        /\ owner[1] = owner[2]
        /\ Len(clients) = 1
        /\ Lookup(clients, tasks[t].service) = 2

-----------------------------------------------------------------------------
(* Claims about the keys requests carry and about get_client's warning,    *)
(* checked under Spec.                                                     *)

\* C11: a request a tool issues through the client resolved for its service
\* carries the service-scoped key as api_key when that key is set, and no
\* api_key at all when it is not, whether or not the generic key is set.
C11_ServiceScopedKeyOnly ==
    \A t \in Tasks :
        (tasks[t].via = "tool" /\ tasks[t].pc = "get") =>
            LET k == ServiceKey(env, tasks[t].service)
                p == tasks[t].req.params
            IN IF Truthy(k)
               THEN "api_key" \in DOMAIN p /\ p["api_key"] = k
               ELSE "api_key" \notin DOMAIN p

\* C12: a tool call, given a Context, whose service has no key configured
\* is not failed by get_client: it is suspended in the warning, and when the
\* warning returns
\* a new client is constructed, cached under the service name and returned,
\* and the call goes on into the client method, whose GET is issued on an
\* open session (unless the method itself rejects its arguments).
C12_MissingKeyOnlyWarns ==
    [][\A t \in Tasks :
         /\ ( /\ Starts(t) /\ Dispatched(tasks'[t])
              /\ ~Cached(clients, tasks'[t].service)
              /\ ~Truthy(ServiceKey(env, tasks'[t].service)) )
            => /\ tasks'[t].pc = "warning"
               /\ tasks'[t].warned = 1
               /\ tasks'[t].result = NoResult
         /\ (tasks[t].pc = "warning" /\ tasks'[t] # tasks[t])
            => LET c == tasks'[t].client IN
               /\ made' = made + 1 /\ c = made'
               /\ Cached(clients', tasks[t].service)
               /\ Lookup(clients', tasks[t].service) = c
               /\ tasks'[t].warned = 1
               /\ ( tasks'[t].op = "get_timezone"
                    => ( \/ Truthy(tasks'[t].args.location)
                         \/ ( /\ tasks'[t].args.latitude # None
                              /\ tasks'[t].args.longitude # None ) ) )
                  => /\ tasks'[t].pc = "get"
                     /\ tasks'[t].sent = 1
                     /\ session'[c] # None
                     /\ ~session'[c].closed]_vars

\* C12 witness: a tool call that was warned about the missing key of its
\* service has its GET in flight through the client cached for the service.
C12_Witness ==
    \E t \in Tasks :
        /\ Dispatched(tasks[t]) /\ tasks[t].warned = 1 /\ tasks[t].pc = "get"
        /\ ~Truthy(ServiceKey(env, tasks[t].service))
        /\ Cached(clients, tasks[t].service)
        /\ Lookup(clients, tasks[t].service) = tasks[t].client

-----------------------------------------------------------------------------
(* The server, one tool call at a time, over every tool.                   *)

\* the replies the remote service gives the calls made one at a time
ToolReplies(op) ==
    WireReplies(op)
    \cup { Response(503, "application/json",
                    Doc(Obj([message |-> Str("Rate limited")]))),
           Response(404, "text/html", Raw("Not found")),
           Response(200, "application/json", Doc(Obj(<< >>))),
           Failure("ClientConnectorError", "Cannot connect to host") }

NextTools ==
    \/ \E tool \in AllTools, ctx \in BOOLEAN :
           \E args \in Supplied(tool) : ToolCall(1, tool, args, ctx)
    \/ ResumeWarning(1)
    \/ \E t \in InFlight : \E r \in ToolReplies(tasks[t].op) : Reply(t, r)
    \/ ResumeError(1)

SpecTools == Init /\ [][NextTools]_vars

-----------------------------------------------------------------------------
(* Claims about the tools, checked under SpecTools.                        *)

RequestFailed(rec) ==
    rec.raw.kind = "raise" /\ rec.raw.exc = "AbstractAPIError"

\* C13: when _request raises AbstractAPIError under a tool called with a
\* Context, the tool is suspended in ctx.error having reported once and
\* holding that very error;
\* when ctx.error returns the tool ends with the same error, reported once.
C13_ErrorReportedOnceAndReraised ==
    /\ [](\A t \in Tasks :
            (Dispatched(tasks[t]) /\ tasks[t].pc = "done" /\ RequestFailed(tasks[t]))
                => tasks[t].result = tasks[t].raw /\ tasks[t].reported = 1)
    /\ [][\A t \in Tasks :
            /\ ( /\ Dispatched(tasks[t]) /\ tasks[t].pc = "get"
                 /\ tasks'[t].pc # "get" /\ RequestFailed(tasks'[t]) )
               => /\ tasks'[t].pc = "error"
                  /\ tasks'[t].result = tasks'[t].raw
                  /\ tasks'[t].reported = 1
            /\ (tasks[t].pc = "error" /\ tasks'[t] # tasks[t])
               => /\ tasks'[t].pc = "done"
                  /\ tasks'[t].result = tasks[t].result
                  /\ tasks'[t].reported = tasks[t].reported]_vars

\* C13 witness: a convert_currency tool call whose request was answered 503
\* has ended with the AbstractAPIError _request raised, reported once.
C13_Witness ==
    \E t \in Tasks :
        /\ Dispatched(tasks[t]) /\ tasks[t].op = "convert_currency"
        /\ tasks[t].pc = "done" /\ RequestFailed(tasks[t])
        /\ tasks[t].result = tasks[t].raw
        /\ tasks[t].result.status = 503
        /\ tasks[t].result.message = Str("Rate limited")
        /\ tasks[t].reported = 1

-----------------------------------------------------------------------------
(* A client acquired for a scope (async with): the scope is entered, its   *)
(* body calls the client's methods one after the other, and it is left.    *)

NextScope ==
    \/ \E key \in {None, Str("test_key")}, tmo \in Timeouts : NewClient(key, tmo)
    \/ ScopeEnter(1, 1)
    \/ \E op \in Methods : \E args \in ArgsOf(op) : Call(2, 1, op, args)
    \/ \E t \in InFlight : \E r \in WireReplies(tasks[t].op) : Reply(t, r)
    \* the body of a scope ends by falling off its end, or by an exception
    \/ \E out \in { Return(None), Raise("AbstractAPIError"), Raise("KeyError") } :
          ScopeExit(1, out)
    \/ ResumeClose(1)

SpecScope == InitClient /\ [][NextScope]_vars

InScope(t) == tasks[t].op = "scope" /\ tasks[t].pc = "inside"

\* C14: inside the scope the client holds an open session; leaving the
\* scope, by its end or by an exception, closes that session, and when the
\* scope has been left (the exception, if any, propagating) the client holds
\* no session.
C14_ScopeOpensAndCloses ==
    /\ [](\A t \in Tasks :
            /\ InScope(t) => /\ session[tasks[t].client] # None
                             /\ ~session[tasks[t].client].closed
            /\ (tasks[t].op = "scope" /\ tasks[t].pc = "done")
                  => /\ session[tasks[t].client] = None
                     /\ tasks[t].result = tasks[t].raw)
    /\ [][\A t \in Tasks :
            (InScope(t) /\ ~InScope(t)')
                => /\ tasks'[t].pc = "closing"
                   /\ session'[tasks[t].client].closed]_vars

\* C14 witness: a scope whose body made a call that failed has been left by
\* an exception, and the client holds no session.
C14_Witness ==
    \E t, u \in Tasks :
        /\ tasks[t].op = "scope" /\ tasks[t].pc = "done"
        /\ tasks[t].result = Raise("AbstractAPIError")
        /\ tasks[u].op \in Methods /\ tasks[u].pc = "done"
        /\ tasks[u].result.kind = "raise" /\ tasks[u].sent = 1
        /\ tasks[u].client = tasks[t].client
        /\ session[tasks[t].client] = None

-----------------------------------------------------------------------------
(* Claims about close(), checked under SpecClient.                          *)

\* C15: close() called on a client that holds no session returns at once,
\* raises nothing and changes nothing; whenever a close() call returns, it
\* returns None and the client holds no session.
C15_CloseIdempotent ==
    [][\A t \in Tasks :
         /\ ( /\ Starts(t) /\ tasks'[t].op = "close"
              /\ session[tasks'[t].client] = None )
            => /\ tasks'[t].pc = "done"
               /\ tasks'[t].result = Return(None)
               /\ session' = session
         /\ ( /\ tasks'[t].op = "close" /\ tasks'[t].pc = "done"
              /\ tasks'[t] # tasks[t] )
            => /\ tasks'[t].result = Return(None)
               /\ session'[tasks'[t].client] = None]_vars

\* C15 witness: after an earlier invocation on the client, close() was
\* called while the client held no session and has returned None, the
\* client still holding none.
C15_Witness ==
    \E t \in Tasks :
        /\ tasks[t].op = "close" /\ tasks[t].pc = "done"
        /\ tasks[t].held = None
        /\ tasks[t].result = Return(None)
        /\ session[tasks[t].client] = None
        /\ calls >= 2

-----------------------------------------------------------------------------
(* Single attempt, checked under SpecTools.                                *)

\* C16: an invocation issues at most one GET: no invocation has sent more
\* than one, and once its method has ended, in success or in failure, the
\* invocation sends nothing more.
C16_SingleAttempt ==
    /\ [](\A t \in Tasks : tasks[t].sent <= 1)
    /\ [][\A t \in Tasks :
            (tasks[t].pc \in {"error", "done"} /\ ~Starts(t))
                => /\ tasks'[t].sent = tasks[t].sent
                   /\ tasks'[t].pc # "get"
                   /\ tasks'[t].req = tasks[t].req]_vars

\* C16 witness: a tool call whose one GET failed at the network level has
\* ended with the wrapped error, having sent one request.
C16_Witness ==
    \E t \in Tasks :
        /\ tasks[t].via = "tool" /\ tasks[t].pc = "done"
        /\ RequestFailed(tasks[t]) /\ tasks[t].raw.status = 500
        /\ tasks[t].sent = 1

-----------------------------------------------------------------------------
(* The capability methods, one call at a time, over every method, with the *)
(* bodies the holiday and exchange-rate services answer.                   *)



CurrencyBodies ==
    { Doc(Obj([base |-> Str("USD"), last_updated |-> Num(1),
               exchange_rates |-> rates])) :
        rates \in { Obj([EUR |-> Num(2)]), Obj([EUR |-> Num(0)]),
                    Obj([GBP |-> Num(3)]), Obj([EUR |-> Num(2), GBP |-> Num(3)]),
                    Obj(<< >>), Obj([EUR |-> None]), None } }
    \cup { Doc(Obj([base |-> Str("USD"), last_updated |-> Num(1),
                    exchange_rates |-> Obj([EUR |-> rate])])) :
             rate \in { Float(1, 2), Float(1, 10), Float(11, 10), Str("ab") } }
    \cup { Doc(Obj([base |-> Str("USD"), last_updated |-> Num(1),
                    exchange_rates |-> Obj([GBP |-> Num(3)]),
                    amount |-> Num(7), converted_amount |-> Num(21)])),
           Doc(Obj([base |-> Str("USD"), last_updated |-> Num(1),
                    exchange_rates |-> Obj([EUR |-> Num(2)]),
                    amount |-> Num(7), converted_amount |-> Num(21)])),
           Doc(Obj([base |-> Str("USD"), last_updated |-> Num(1)])),
           Doc(Obj([exchange_rates |-> None])),
           Doc(List(<<List(<<Str("base"), Str("USD")>>)>>)),
           Doc(List(<<List(<<Str("base"), Str("USD")>>),
                      Dict(<<"last_updated", "5">>,
                           SetItem([last_updated |-> Num(0)], "5", Num(0))),
                      List(<<Str("exchange_rates"), Obj(<< >>)>>)>>)),
           Doc(List(<<Obj([a |-> Num(1), b |-> Num(2)])>>)),
           Doc(Str("ok")),
           Doc(List(<< >>)) }

\* an entry of a holidays answer
Hol(name) ==
    Obj([name |-> Str(name), country |-> Str("US"), type |-> Str("National"),
         date |-> Str("v"), date_year |-> Str("2025"), date_month |-> Str("v"),
         date_day |-> Str("v"), week_day |-> Str("v")])

HolidayLists ==
    { List(<< >>),
      List(<<Hol("New Year"), Hol("Christmas")>>),
      List(<<Hol("Christmas"), Hol("New Year")>>),
      List(<<Obj(SetItem(Hol("Easter").f, "name_local", Str("Pascua")))>>),
      List(<<Obj(SetItem(Hol("Easter").f, "uuid", Str("u1")))>>),
      List(<<Obj(SetItem(Hol("Easter").f, "location", None))>>),
      List(<<Hol("New Year"), Str("Christmas")>>),
      List(<<Obj(SetItem(Hol("Easter").f, "date_year", Num(2025)))>>),
      List(<<Obj([name |-> Str("New Year")])>>) }

\* answers whose values pydantic converts, or refuses, on validation
ConvertedBodies(op) ==
    LET good == GoodBody(op).v.f IN
    CASE op = "get_timezone" ->
           { Doc(Obj(SetItem(good, "timezone_offset", v))) :
               v \in {Str("3600"), Str(" 3600.0"), Float(3600, 1), Bool(TRUE),
                      Float(1, 2), Str("1h"), Str("5."), Str("\t5"),
                      Str("-5"), Str("1_000")} }
      [] op = "validate_phone" ->
           { Doc(Obj(SetItem(good, "valid", v))) :
               v \in {Num(1), Num(2), Str("TRUE"), Str("no"), Float(0, 1)} }
           \cup { Doc(Obj(SetItem(good, "carrier", v))) : v \in {Num(1), None} }
      [] op = "validate_email" ->
           { Doc(Obj(SetItem(good, "quality_score", v))) :
               v \in {Float(1, 2), Str("0.5"), Bool(TRUE), None, Str("1e3"),
                      Str("5."), Str("\t-0.5"), Str("0.5 s")} }
           \cup { Doc(Obj(SetItem(good, "is_valid_format", v))) :
                    v \in {Obj([value |-> Bool(TRUE), text |-> Str("TRUE")]),
                           Obj([EUR |-> Num(2)]), List(<< >>)} }
      [] op = "scrape_url" ->
           { Doc(Obj(SetItem(good, "links", v))) :
               v \in {List(<<Str("a")>>), List(<<Num(1)>>), Str("a"), None} }
      [] OTHER -> {}

MethodReplies(op) ==
    ToolReplies(op)
    \cup { Response(200, "application/json", b) : b \in ConvertedBodies(op) }
    \cup { Response(200, "image/png", Raw("PNG")),
           Response(200, "text/plain", Raw("Not found")) }
    \cup IF op = "convert_currency"
         THEN { Response(200, "application/json", b) : b \in CurrencyBodies }
         ELSE IF op = "get_holidays"
         THEN { Response(200, "application/json", Doc(l)) : l \in HolidayLists }
              \cup { Response(200, "application/json", Doc(Obj([holidays |-> l]))) :
                       l \in HolidayLists \cup {None} }
         ELSE {}

NextMethods ==
    \/ \E key \in {None, Str("test_key")}, tmo \in Timeouts : NewClient(key, tmo)
    \/ \E op \in AllTools : \E args \in AllArgs(op) : Call(1, 1, op, args)
    \/ \E t \in InFlight : \E r \in MethodReplies(tasks[t].op) : Reply(t, r)

SpecMethods == InitClient /\ [][NextMethods]_vars

-----------------------------------------------------------------------------
(* Claims about convert_currency and get_holidays, checked under           *)
(* SpecMethods.                                                            *)

\* the call of method op in slot t has returned a record
Returned(t, op) ==
    /\ tasks[t].op = op /\ tasks[t].pc = "done"
    /\ tasks[t].result.kind = "return"

\* the rates the response gave: the exchange_rates of the value _request
\* returned
RatesGiven(t) == tasks[t].raw.value.f["exchange_rates"]

\* C17: every record convert_currency returns carries the supplied amount as
\* amount, and as converted_amount the amount times the rate the response
\* gives for the target.
C17_ConvertedAmountAttached ==
    \A t \in Tasks :
        Returned(t, "convert_currency") =>
            LET a == tasks[t].args
                rec == tasks[t].result.value.fields
            IN /\ PyEq(rec["amount"], a.amount)
               /\ a.target.s \in DOMAIN RatesGiven(t).f
               /\ Mul(a.amount, RatesGiven(t).f[a.target.s]).kind = "return"
               /\ PyEq(rec["converted_amount"],
                       Mul(a.amount, RatesGiven(t).f[a.target.s]).value)

\* C18: convert_currency's one GET goes to the live endpoint, without a date
\* parameter, exactly when no date is given (None or the empty string), and
\* otherwise to the historical endpoint with the date as its date parameter;
\* base and target are parameters of both.
C18_EndpointByDate ==
    \A t \in Tasks :
        (tasks[t].op = "convert_currency" /\ tasks[t].pc = "get") =>
            LET a == tasks[t].args
                q == tasks[t].req
            IN /\ tasks[t].sent = 1
               /\ {"base", "target"} \subseteq DOMAIN q.params
               /\ q.params["base"] = a.base
               /\ q.params["target"] = a.target
               /\ IF a.date \in {None, Str("")}
                  THEN /\ q.url = "https://exchange-rates.abstractapi.com/v1/live/"
                       /\ "date" \notin DOMAIN q.params
                  ELSE /\ q.url =
                            "https://exchange-rates.abstractapi.com/v1/historical/"
                       /\ "date" \in DOMAIN q.params
                       /\ q.params["date"] = a.date

\* C18 witness: a convert_currency call given a date has its GET in flight
\* to the historical endpoint, the date among its parameters.
C18_Witness ==
    \E t \in Tasks :
        /\ tasks[t].op = "convert_currency" /\ tasks[t].pc = "get"
        /\ tasks[t].args.date = Str("2024-01-15")
        /\ tasks[t].req.url = "https://exchange-rates.abstractapi.com/v1/historical/"
        /\ tasks[t].req.params["date"] = Str("2024-01-15")

\* the holidays of a returned record are the entries of list l, one Holiday
\* record per entry in the list's order, each carrying the entry's value in
\* every field a Holiday declares (None where the entry has none)
SameHolidays(hs, l) ==
    /\ IsList(hs) /\ Len(hs.q) = Len(l.q)
    /\ \A i \in 1..Len(l.q) :
         /\ hs.q[i].model = "Holiday"
         /\ \A k \in Declared("Holiday") :
              hs.q[i].fields[k] =
                  IF k \in DOMAIN l.q[i].f THEN l.q[i].f[k] ELSE None

\* v is a value of the type annotation a names (an int is one of float's)
RECURSIVE OfType(_, _)
OfType(v, a) ==
    CASE a.k = "any" -> TRUE
      [] a.k = "optional" -> v = None \/ OfType(v, a.of)
      [] a.k = "str" -> v.t = "str"
      [] a.k = "int" -> v.t = "num"
      [] a.k = "float" -> v.t \in {"num", "float"}
      [] a.k = "bool" -> v.t = "bool"
      [] a.k = "dict" -> IsDict(v) /\ \A x \in DOMAIN v.f : OfType(v.f[x], a.of)
      [] a.k = "list" -> IsList(v) /\ \A i \in 1..Len(v.q) : OfType(v.q[i], a.of)
      [] a.k = "model" ->
           /\ IsDict(v) /\ Required(a.of) \subseteq DOMAIN v.f
           /\ \A x \in (DOMAIN v.f) \cap Declared(a.of) :
                OfType(v.f[x], TypeOf(a.of, x))

\* every entry of list l is an object that has the fields a Holiday requires,
\* each declared field it has holding a value of the declared type
HolidayEntries(l) == OfType(l, Of("list", Of("model", "Holiday")))

\* the get_holidays call in slot t got a list from _request
ListBody(t) ==
    /\ tasks[t].op = "get_holidays" /\ tasks[t].pc = "done"
    /\ tasks[t].raw.kind = "return" /\ IsList(tasks[t].raw.value)

\* C19 as stated: get_holidays accepts a response that is a list, whatever
\* its entries, and returns a record whose holidays are that list's entries
\* in the same order; from a response that is an object it returns the
\* record built from the object's holidays field.
C19_RawListVerbatim ==
    \A t \in Tasks :
        /\ ListBody(t) => tasks[t].result.kind = "return"
        /\ Returned(t, "get_holidays") =>
             LET data == tasks[t].raw.value
                 hs == tasks[t].result.value.fields["holidays"]
             IN /\ tasks[t].result.value.model = "HolidaysResponse"
                /\ IsList(data) => SameHolidays(hs, data)
                /\ (IsDict(data) /\ "holidays" \in DOMAIN data.f)
                      => SameHolidays(hs, data.f["holidays"])

\* C19 amended: get_holidays accepts a response that is a list of holiday
\* entries, objects with every field a Holiday requires and values of the
\* declared types, and returns a record whose holidays are that list's
\* entries in the same order; a list with any other entry raises and no
\* record is returned; from a response that is an object it returns the
\* record built from the object's holidays field.
C19_HolidaysBothShapes ==
    \A t \in Tasks :
        /\ ListBody(t) =>
              tasks[t].result.kind =
                  IF HolidayEntries(tasks[t].raw.value) THEN "return" ELSE "raise"
        /\ Returned(t, "get_holidays") =>
             LET data == tasks[t].raw.value
                 hs == tasks[t].result.value.fields["holidays"]
             IN /\ tasks[t].result.value.model = "HolidaysResponse"
                /\ IsList(data) => SameHolidays(hs, data)
                /\ (IsDict(data) /\ "holidays" \in DOMAIN data.f)
                      => SameHolidays(hs, data.f["holidays"])
                /\ (IsDict(data) /\ "holidays" \notin DOMAIN data.f)
                      => hs = List(<< >>)

\* C19 witness: get_holidays answered with the list New Year, Christmas has
\* returned a record whose holidays are New Year, then Christmas.
C19_Witness ==
    \E t \in Tasks :
        /\ Returned(t, "get_holidays")
        /\ tasks[t].raw.value = List(<<Hol("New Year"), Hol("Christmas")>>)
        /\ Len(tasks[t].result.value.fields["holidays"].q) = 2
        /\ tasks[t].result.value.fields["holidays"].q[1].fields["name"]
               = Str("New Year")
        /\ tasks[t].result.value.fields["holidays"].q[2].fields["name"]
               = Str("Christmas")

-----------------------------------------------------------------------------
(* Normalization, checked under SpecRequest.                               *)

Declares(kind) == Contains(reply.ctype, kind)

\* C20: a response with a status below 400 is normalized by its content
\* type, in this order: image or application/octet-stream gives the raw
\* bytes; application/json gives the parsed document; text/plain gives
\* {"result": text}; any other type gives the parsed document when the body
\* starts with "{" or "[" and parses, and {"result": text} otherwise.  The
\* JSON case is stated of the bodies that are JSON documents.
C20_NormalizationOrder ==
    (Handled /\ reply.is = "response" /\ reply.status < 400) =>
        LET b == reply.body IN
        IF Declares("image") \/ Declares("application/octet-stream")
        THEN outcome = Return(Bytes(b))
        ELSE IF Declares("application/json")
        THEN b.k = "doc" => outcome = Return(b.v)
        ELSE IF Declares("text/plain")
        THEN outcome = Return(Obj([result |-> TextOf(b)]))
        ELSE IF b.k = "doc" /\ b.pad = "" /\ b.v.t \in {"obj", "list"}
        THEN outcome = Return(b.v)
        ELSE outcome = Return(Obj([result |-> TextOf(b)]))

-----------------------------------------------------------------------------
(* Claims about what the tools pass on and return, checked under SpecTools. *)

\* the defaults of a method's optional parameters (api_client.py 169 ... 437)
MethodDefaults(op) ==
    CASE op = "validate_phone" -> [country_code |-> None]
      [] op = "geolocate_ip" -> [fields |-> None]
      [] op = "get_timezone" ->
           [location |-> None, latitude |-> None, longitude |-> None]
      [] op = "get_holidays" -> [month |-> None, day |-> None]
      [] op = "get_exchange_rates" -> [base |-> Str("USD"), target |-> None]
      [] op = "convert_currency" -> [date |-> None]
      [] op = "scrape_url" -> [render_js |-> Bool(FALSE)]
      [] op = "generate_screenshot" ->
           [width |-> Num(1920), height |-> Num(1080), full_page |-> Bool(FALSE)]
      [] OTHER -> << >>

ToolStarted(t) == Dispatched(tasks[t]) /\ tasks[t].pc # "idle"

\* C21: a tool call given a Context resolves the client of the tool's
\* service, invokes the method of the tool's name once, with the arguments
\* the caller supplied
\* and every omitted optional argument at its default, and when the method
\* returns a record the tool returns that record.
C21_ToolDelegatesToMethod ==
    \A t \in Tasks :
        ToolStarted(t) =>
            LET rec == tasks[t]
                dflt == MethodDefaults(rec.tool)
            IN /\ rec.tool \in AllTools
               /\ rec.service = ServiceOf(rec.tool)
               /\ rec.pc # "warning" => rec.client = Lookup(clients, rec.service)
               /\ rec.op = rec.tool
               /\ DOMAIN rec.args = (DOMAIN rec.given) \cup (DOMAIN dflt)
               /\ \A k \in DOMAIN rec.args :
                    rec.args[k] = IF k \in DOMAIN rec.given
                                  THEN rec.given[k] ELSE dflt[k]
               /\ rec.sent <= 1
               /\ (rec.pc = "done" /\ rec.raw.kind = "return")
                     => /\ rec.sent = 1
                        /\ rec.result = MethodOutcome(rec.tool, rec.args, rec.raw)

\* C21 witness: the validate_phone tool, called with a phone number only,
\* has returned the record of validate_phone(phone, None).
C21_Witness ==
    \E t \in Tasks :
        /\ Dispatched(tasks[t])
        /\ tasks[t].tool = "validate_phone" /\ tasks[t].pc = "done"
        /\ DOMAIN tasks[t].given = {"phone"}
        /\ tasks[t].args.country_code = None
        /\ tasks[t].service = "phone"
        /\ tasks[t].result.kind = "return"
        /\ tasks[t].result.value.model = "PhoneValidationResponse"

-----------------------------------------------------------------------------
(* Claims about the records the methods build, checked under SpecMethods.  *)

\* the call in slot t got a normalized JSON object from _request
ObjectBody(t) ==
    /\ tasks[t].op \in AllTools /\ tasks[t].pc = "done"
    /\ tasks[t].raw.kind = "return" /\ IsDict(tasks[t].raw.value)

HasRequired(t) ==
    Required(ModelOf(tasks[t].op)) \subseteq DOMAIN tasks[t].raw.value.f

\* field k of the returned record is field k of the body
Carried(t, k) ==
    LET body == tasks[t].raw.value.f
        rec == tasks[t].result.value.fields
    IN IF k = "holidays" THEN SameHolidays(rec[k], body[k])
       ELSE PyEq(rec[k], body[k])

\* the fields convert_currency computes itself: amount and converted_amount
\* when the body gives a rate for the target
Computed(t) ==
    IF /\ tasks[t].op = "convert_currency"
       /\ IsDict(RatesGiven(t))
       /\ tasks[t].args.target.s \in DOMAIN RatesGiven(t).f
    THEN {"amount", "converted_amount"} ELSE {}

\* the values of the body are of the types the record declares
WellTyped(t) ==
    LET model == ModelOf(tasks[t].op)
        body == tasks[t].raw.value.f
    IN \A k \in (DOMAIN body) \cap Declared(model) :
           OfType(body[k], TypeOf(model, k))

\* C22 as stated: from an object body with every required field the method
\* returns a record each of whose fields equals the body's field of that
\* name; from an object body lacking a required field it returns no record.
C22_BodyFieldsCarried ==
    \A t \in Tasks :
        ObjectBody(t) =>
            IF HasRequired(t)
            THEN /\ tasks[t].result.kind = "return"
                 /\ \A k \in DOMAIN tasks[t].result.value.fields :
                      k \in DOMAIN tasks[t].raw.value.f => Carried(t, k)
            ELSE tasks[t].result.kind = "raise"

\* C22 amended: from an object body with every required field, all of the
\* declared types, the method returns a record each of whose fields equals
\* the body's field of that name, except the two fields convert_currency
\* computes itself; from an object body lacking a required field it returns
\* no record.
C22_TypedBodyFieldsCarried ==
    \A t \in Tasks :
        ObjectBody(t) =>
            /\ (HasRequired(t) /\ WellTyped(t))
                  => /\ tasks[t].result.kind = "return"
                     /\ \A k \in DOMAIN tasks[t].result.value.fields :
                          (k \in DOMAIN tasks[t].raw.value.f /\ k \notin Computed(t))
                              => Carried(t, k)
            /\ ~HasRequired(t) => tasks[t].result.kind = "raise"

\* C22 witness: convert_currency, answered with rates that have none for its
\* target and with an amount of the service's own, has returned a record
\* carrying the body's rates and the body's amount.
C22_Witness ==
    \E t \in Tasks :
        /\ Returned(t, "convert_currency") /\ ObjectBody(t)
        /\ RatesGiven(t) = Obj([GBP |-> Num(3)])
        /\ tasks[t].result.value.fields["exchange_rates"]
               = Obj([GBP |-> Float(3, 1)])
        /\ tasks[t].result.value.fields["amount"] = Float(7, 1)
        /\ tasks[t].result.value.fields["base"] = Str("USD")

-----------------------------------------------------------------------------
(* Claims about the health endpoint, checked under SpecHealth.             *)

Healthy ==
    [status |-> 200,
     body |-> Obj([status |-> Str("healthy"), service |-> Str("mcp-abstract-api")])]

\* C23: every response of the health endpoint has status 200 and the body
\* {"status": "healthy", "service": "mcp-abstract-api"}, whatever the state
\* of the server, and a request of the endpoint leaves the registry, every
\* client and its session, and every call in progress (so the GETs sent) as
\* they were.
C23_HealthFixedAndInert ==
    /\ [](\A i \in 1..Len(health) : health[i] = Healthy)
    /\ [][health' # health =>
            /\ Len(health') = Len(health) + 1
            /\ UNCHANGED <<env, clients, made, api_key, timeout, session, owner,
                           tasks, shut, calls>>]_vars

\* C23 witness: the endpoint has answered, and the server has shut down with
\* a call that failed behind it and a session closed.
C23_Witness ==
    /\ Len(health) >= 1
    /\ shut.pc = "done" /\ clients = << >>
    /\ made >= 1
    /\ \E t \in Tasks : tasks[t].pc = "done" /\ tasks[t].result.kind = "raise"

-----------------------------------------------------------------------------
(* Claims about shutdown with calls in progress.                           *)

\* every call has ended and shutdown_event has returned
Quiescent ==
    /\ shut.pc = "done"
    /\ \A t \in Tasks : tasks[t].pc \in {"idle", "done"}

SessionReleased(c) == session[c] = None \/ session[c].closed

\* C24: when every tool call started before shutdown_event, and those calls
\* and shutdown_event have all completed, no client get_client has
\* constructed holds an open session.
C24_NoSessionLeak ==
    Quiescent => \A c \in 1..made : SessionReleased(c)

\* C25: shutdown_event, once started, never ends otherwise than by
\* completing (no exception leaves its loop), whatever get_client calls
\* resume while it is suspended, and when it completes the registry is empty.
C25_ShutdownRunsToCompletion ==
    /\ [](shut.pc # "failed")
    /\ [][ShutdownCompletes => clients' = << >>]_vars

-----------------------------------------------------------------------------
(* Claims about get_client for a service whose key is set, under Spec.     *)

\* the environment holds a non-empty ABSTRACT_<SERVICE>_API_KEY
Keyed(service) == Truthy(env.service[service])

\* the clients get_client has constructed for a service name
MadeFor(service) == { c \in 1..made : owner[c] = service }

\* the tool calls that have been given a client for a service name
Holding(service) ==
    { t \in Tasks : /\ tasks[t].via = "tool" /\ tasks[t].service = service
                    /\ tasks[t].pc \notin {"idle", "warning"} }

\* C26: for a service name whose key is configured, get_client never
\* suspends: it returns in the step in which it is called, constructs a
\* client only when the registry has no entry for the name, and otherwise
\* returns the entry; so until shutdown_event has cleared the registry one
\* client at most is constructed for the name and every caller holds it.
C26_OneClientWhenKeyed ==
    /\ [](\A s \in Services :
            Keyed(s) =>
                /\ ~PendingFor(s)
                /\ shut.pc # "done" =>
                      /\ Cardinality(MadeFor(s)) <= 1
                      /\ \A t \in Holding(s) : tasks[t].client \in MadeFor(s))
    /\ [][\A t \in Tasks :
            (Resolves(t) /\ Keyed(tasks'[t].service)) =>
                /\ Starts(t)
                /\ tasks'[t].client = Lookup(clients', tasks'[t].service)
                /\ IF Cached(clients, tasks'[t].service)
                   THEN /\ made' = made
                        /\ tasks'[t].client = Lookup(clients, tasks'[t].service)
                   ELSE /\ made' = made + 1
                        /\ tasks'[t].client = made']_vars

\* C26 witness: with the email key set, two validate_email calls are in
\* flight together, one client has been constructed, and both hold it.
C26_Witness ==
    /\ Keyed("email") /\ shut.pc = "idle"
    /\ made = 1 /\ owner[1] = "email"
    /\ \E t, u \in Tasks :
         /\ t # u
         /\ Dispatched(tasks[t]) /\ Dispatched(tasks[u])
         /\ tasks[t].pc = "get" /\ tasks[u].pc = "get"
         /\ tasks[t].service = "email" /\ tasks[u].service = "email"
         /\ tasks[t].client = 1 /\ tasks[u].client = 1

====
